---- MODULE Spec2Model ----
(***************************************************************************)
(* A model of the NLPS script engine of NeverLiiePackageManager:           *)
(* the lexer (src/src/nlps/lexer.py), the recursive-descent parser         *)
(* (src/src/nlps/parser.py) and the tree-walking interpreter               *)
(* (src/src/nlps/interpreter.py).                                          *)
(*                                                                         *)
(* The lexer and the parser are pure operators over the source text.  The  *)
(* interpreter is a state machine: every Python thread (the main thread    *)
(* and the workers of a parallel block) has a stack of frames, one per     *)
(* active Python call or loop, and takes one step per Python statement     *)
(* that reads or writes the interpreter's shared state.                    *)
(***************************************************************************)
EXTENDS Integers, Sequences, FiniteSets, TLC

VARIABLES
    source,       \* the script text handed to Interpreter.run
    args,         \* Interpreter.args
    hostOs,       \* os.name of the host: "posix" or "nt"
    variables,    \* Interpreter.variables
    functions,    \* Interpreter.functions
    environment,  \* Interpreter.environment
    cwd,          \* Interpreter.cwd (the logical working directory)
    osCwd,        \* the working directory of the OS process
    threads,      \* the Python threads: threads[1] is the caller of run()
    output,       \* the lines printed so far, in order
    spawned,      \* the processes spawned so far, in order
    result,       \* the value run() returned, NoResult while it runs
    hist,         \* history of the run, read only by the properties
    registry,     \* the package registry: the tables of registry.db
    cli,          \* the last nlpm command: its arguments and its exit code
    lexer,        \* the Lexer at work on `source`, one main-loop turn a step
    scripts       \* the names of the .nlps files in config.SCRIPTS_DIR

vars == <<source, args, hostOs, variables, functions, environment, cwd,
          osCwd, threads, output, spawned, result, hist, registry, cli,
          lexer, scripts>>

(***************************************************************************)
(* Characters.  A character is a string of length one; NUL stands for the  *)
(* '\0' that Lexer.peek returns past the end of the source.                *)
(***************************************************************************)
NUL == "<NUL>"

\* the characters int() reads as the digits of a number
Decimals == {"0", "1", "2", "3", "4", "5", "6", "7", "8", "9"}

\* the characters str.isdigit accepts: the decimal digits, and digits such
\* as the superscript two, which int() rejects
Digits == Decimals \cup {"²"}

Letters ==
    {"a", "b", "c", "d", "e", "f", "g", "h", "i", "j", "k", "l", "m",
     "n", "o", "p", "q", "r", "s", "t", "u", "v", "w", "x", "y", "z",
     "A", "B", "C", "D", "E", "F", "G", "H", "I", "J", "K", "L", "M",
     "N", "O", "P", "Q", "R", "S", "T", "U", "V", "W", "X", "Y", "Z"}

AlNum == Letters \cup Digits

\* the characters of \w in the parser's regular expressions
WordChars == AlNum \cup {"_"}

\* the characters read_identifier accepts
IdentChars == AlNum \cup {"_", ".", "/", "-"}

\* s[i-1:j] of Python for 1-based i and j: clamped to the string
Sub(s, i, j) ==
    IF i > Len(s) \/ j < i THEN ""
    ELSE SubSeq(s, i, IF j > Len(s) THEN Len(s) ELSE j)

CharAt(s, i) == Sub(s, i + 1, i + 1)

(***************************************************************************)
(* Lexer.  The lexer state is [pos, line, column, tokens, status]; pos is  *)
(* 0-based as in the source.                                               *)
(***************************************************************************)
KEYWORDS ==
    [w \in {"run", "if", "else", "for", "in", "fn", "cd", "on", "parallel",
            "true", "false"} |->
        CASE w = "run" -> "RUN"
          [] w = "if" -> "IF"
          [] w = "else" -> "ELSE"
          [] w = "for" -> "FOR"
          [] w = "in" -> "IN"
          [] w = "fn" -> "FN"
          [] w = "cd" -> "CD"
          [] w = "on" -> "ON"
          [] w = "parallel" -> "PARALLEL"
          [] OTHER -> "BOOL"]

SPECIAL_VARS == {"CWD", "HOME", "NLPM_HOME", "SCRIPT_DIR", "OS"}

Token(type, value, line, column) ==
    [type |-> type, value |-> value, line |-> line, column |-> column]

LexInit == [pos |-> 0, line |-> 1, column |-> 1, tokens |-> <<>>,
            status |-> "scan", err |-> ""]

peek(src, st, offset) ==
    IF st.pos + offset >= Len(src) THEN NUL ELSE CharAt(src, st.pos + offset)

advance(src, st) ==
    IF peek(src, st, 0) = "\n"
    THEN [st EXCEPT !.pos = @ + 1, !.line = @ + 1, !.column = 1]
    ELSE [st EXCEPT !.pos = @ + 1, !.column = @ + 1]

\* advance while the current character is in `chars`
RECURSIVE AdvanceWhile(_, _, _)
AdvanceWhile(src, st, chars) ==
    IF peek(src, st, 0) \in chars
    THEN AdvanceWhile(src, advance(src, st), chars)
    ELSE st

\* advance until the current character is in `stops` or the source ends
RECURSIVE AdvanceUntil(_, _, _)
AdvanceUntil(src, st, stops) ==
    IF peek(src, st, 0) \in stops \/ peek(src, st, 0) = NUL
    THEN st
    ELSE AdvanceUntil(src, advance(src, st), stops)

Text(src, from, to) == SubSeq(src, from.pos + 1, to.pos)

skip_whitespace(src, st) == AdvanceWhile(src, st, {" ", "\t", "\r"})

LexError(st, msg) == [st EXCEPT !.status = "error", !.err = msg]

\* a lexer that appends every token twice
EmitTwice(st, at, type, value) ==
    [st EXCEPT !.tokens = Append(Append(@, Token(type, value, at.line,
                                                 at.column)),
                                 Token(type, value, at.line, at.column))]

Emit(st, at, type, value) ==
    [st EXCEPT !.tokens = Append(@, Token(type, value, at.line, at.column))]

\* read_string: [st, text, ok]
read_string(src, st) ==
    LET quote == peek(src, st, 0)
        open == advance(src, st)
        body == AdvanceUntil(src, open, {quote})
    IN  IF peek(src, body, 0) = quote
        THEN [st |-> advance(src, body), text |-> Text(src, open, body),
              ok |-> TRUE]
        ELSE [st |-> body, text |-> Text(src, open, body), ok |-> FALSE]

\* read_number: the state after the number
read_number(src, st) ==
    LET int == AdvanceWhile(src, st, Digits)
    IN  IF peek(src, int, 0) = "." /\ peek(src, int, 1) \in Digits
        THEN AdvanceWhile(src, advance(src, int), Digits)
        ELSE int

read_identifier(src, st) == AdvanceWhile(src, st, IdentChars)

read_comment(src, st) == AdvanceUntil(src, st, {"\n"})

Single ==
    [c \in {"{", "}", "(", ")", "[", "]", ",", ">", "<"} |->
        CASE c = "{" -> "LBRACE"
          [] c = "}" -> "RBRACE"
          [] c = "(" -> "LPAREN"
          [] c = ")" -> "RPAREN"
          [] c = "[" -> "LBRACKET"
          [] c = "]" -> "RBRACKET"
          [] c = "," -> "COMMA"
          [] c = ">" -> "GT"
          [] OTHER -> "LT"]

\* the `$` branch of Lexer.tokenize; at is the state at the `$`
LexDollar(src, at) ==
    LET st == advance(src, at)
        c  == peek(src, st, 0)
    IN  IF c \in Digits
        THEN LET e == read_number(src, st)
             IN  Emit(e, at, "ARG_PREFIX", Text(src, st, e))
        ELSE IF c = "@" \/ c = "#"
        THEN Emit(advance(src, st), at, "ARG_PREFIX", c)
        ELSE IF c \in Letters
        THEN LET e    == read_identifier(src, st)
                 name == Text(src, st, e)
             IN  IF name \in SPECIAL_VARS
                 THEN Emit(e, at, name, name)
                 ELSE Emit(e, at, "VAR_REF", name)
        ELSE IF c = "{"
        THEN Emit(advance(src, st), at, "STRING_INTERP_START", "${")
        ELSE LexError(st, "Unexpected character after $")

\* one iteration of the `while True` loop of Lexer.tokenize
TokenizeStep(src, st0) ==
    LET st == skip_whitespace(src, st0)
        c  == peek(src, st, 0)
    IN  IF c = NUL
        THEN [Emit(st, st, "EOF", "") EXCEPT !.status = "done"]
        ELSE IF c = "\n"
        THEN Emit(advance(src, st), st, "NEWLINE", "\n")
        ELSE IF c = "#"
        THEN LET e == read_comment(src, st)
             IN  Emit(e, st, "COMMENT", Text(src, st, e))
        ELSE IF c = "\"" \/ c = "'"
        THEN LET r == read_string(src, st)
             IN  IF r.ok
                 THEN Emit(r.st, st, "STRING", r.text)
                 ELSE LexError(r.st, "Unterminated string literal")
        ELSE IF c \in Digits
        THEN LET e == read_number(src, st)
             IN  Emit(e, st, "NUMBER", Text(src, st, e))
        ELSE IF c = "$"
        THEN LexDollar(src, st)
        ELSE IF \/ c \in Letters
                \/ c = "_"
                \/ c = "."
                \/ (c = "-" /\ (peek(src, st, 1) \in AlNum
                                \/ peek(src, st, 1) = "-"))
        THEN LET e     == read_identifier(src, st)
                 ident == Text(src, st, e)
             IN  IF ident \in DOMAIN KEYWORDS
                 THEN Emit(e, st, KEYWORDS[ident], ident)
                 ELSE Emit(e, st, "IDENTIFIER", ident)
        ELSE IF c \in DOMAIN Single
        THEN Emit(advance(src, st), st, Single[c], c)
        ELSE IF c = "="
        THEN LET e == advance(src, st)
             IN  IF peek(src, e, 0) = "="
                 THEN Emit(advance(src, e), st, "EQ", "==")
                 ELSE Emit(e, st, "ASSIGN", "=")
        ELSE IF c = "\\"
        THEN Emit(advance(src, st), st, "IDENTIFIER", "\\")
        ELSE LexError(st, "Unexpected character: " \o c)

RECURSIVE LexLoop(_, _)
LexLoop(src, st) ==
    IF st.status = "scan" THEN LexLoop(src, TokenizeStep(src, st)) ELSE st

\* tokenize(source): [ok, tokens, err]
tokenize(src) ==
    LET st == LexLoop(src, LexInit)
    IN  [ok |-> st.status = "done", tokens |-> st.tokens,
         err |-> [type |-> "SyntaxError", msg |-> st.err,
                  line |-> st.line, column |-> st.column]]

(***************************************************************************)
(* Text helpers shared by the parser and the interpreter.                  *)
(***************************************************************************)
\* the first index >= i (1-based) of s whose character is not in chars
RECURSIVE SpanEnd(_, _, _)
SpanEnd(s, i, chars) ==
    IF i <= Len(s) /\ Sub(s, i, i) \in chars
    THEN SpanEnd(s, i + 1, chars)
    ELSE i

DigitValue ==
    [c \in Decimals |->
        CASE c = "0" -> 0 [] c = "1" -> 1 [] c = "2" -> 2 [] c = "3" -> 3
          [] c = "4" -> 4 [] c = "5" -> 5 [] c = "6" -> 6 [] c = "7" -> 7
          [] c = "8" -> 8 [] OTHER -> 9]

\* int(text) for a string of decimal digits
RECURSIVE ParseInt(_)
ParseInt(text) ==
    IF Len(text) = 0 THEN 0
    ELSE 10 * ParseInt(Sub(text, 1, Len(text) - 1))
         + DigitValue[Sub(text, Len(text), Len(text))]

\* str.isdigit
IsDigits(text) ==
    Len(text) > 0 /\ \A i \in 1..Len(text) : Sub(text, i, i) \in Digits

\* int(text) returns for a text the lexer or \w+ can produce: it raises
\* ValueError unless every character is a decimal digit
IntOk(text) ==
    Len(text) > 0 /\ \A i \in 1..Len(text) : Sub(text, i, i) \in Decimals

\* float(text) returns for the text of a number token with a dot
FloatOk(text) ==
    \A i \in 1..Len(text) : Sub(text, i, i) \in Decimals \cup {"."}

\* the ValueError of int(text)
IntError(text) ==
    [type |-> "ValueError",
     msg  |-> "invalid literal for int() with base 10: '" \o text \o "'"]

\* sep.join(parts)
RECURSIVE Join(_, _)
Join(parts, sep) ==
    IF Len(parts) = 0 THEN ""
    ELSE IF Len(parts) = 1 THEN parts[1]
    ELSE parts[1] \o sep \o Join(Tail(parts), sep)

(***************************************************************************)
(* AST nodes (parser.py, lines 6-84): records tagged by the class name.    *)
(***************************************************************************)
StringLiteral(value, interpolations) ==
    [node |-> "StringLiteral", value |-> value,
     interpolations |-> interpolations]
NumberLiteral(value) == [node |-> "NumberLiteral", value |-> value]
BoolLiteral(value) == [node |-> "BoolLiteral", value |-> value]
VariableRef(name) == [node |-> "VariableRef", name |-> name]
SpecialVarRef(name) == [node |-> "SpecialVarRef", name |-> name]
ArgRef(index) == [node |-> "ArgRef", index |-> index]
Assignment(name, value) ==
    [node |-> "Assignment", name |-> name, value |-> value]
RunCommand(command) == [node |-> "RunCommand", command |-> command]
CdCommand(path) == [node |-> "CdCommand", path |-> path]
IfStatement(condition, then_block, else_block) ==
    [node |-> "IfStatement", condition |-> condition,
     then_block |-> then_block, else_block |-> else_block]
ForLoop(var_name, iterable, body) ==
    [node |-> "ForLoop", var_name |-> var_name, iterable |-> iterable,
     body |-> body]
FunctionDef(name, params, body) ==
    [node |-> "FunctionDef", name |-> name, params |-> params, body |-> body]
FunctionCall(name, callArgs) ==
    [node |-> "FunctionCall", name |-> name, args |-> callArgs]
OsBlock(os_name, body) ==
    [node |-> "OsBlock", os_name |-> os_name, body |-> body]
ParallelBlock(body) == [node |-> "ParallelBlock", body |-> body]
Comparison(left, operator, right) ==
    [node |-> "Comparison", left |-> left, operator |-> operator,
     right |-> right]
ArrayLiteral(elements) == [node |-> "ArrayLiteral", elements |-> elements]

\* Python's None, where a node is optional
None == [node |-> "None"]

(***************************************************************************)
(* Runtime values: Python's str, int, float, bool, list and None, tagged   *)
(* by type.  A float keeps the text it was written with.                   *)
(***************************************************************************)
VStr(s) == [t |-> "str", v |-> s]
VInt(n) == [t |-> "int", v |-> n]
VFloat(text) == [t |-> "float", v |-> text]
VBool(b) == [t |-> "bool", v |-> b]
VList(elems) == [t |-> "list", v |-> elems]
VNone == [t |-> "none", v |-> 0]

(***************************************************************************)
(* Parser.  pos is the 0-based index into the token list, as in the        *)
(* source.  Every parse_* operator returns [ok, pos, val, err]: the        *)
(* position after what it consumed and the node built, or the error        *)
(* raised.                                                                 *)
(***************************************************************************)
current(toks, pos) ==
    IF pos >= Len(toks) THEN toks[Len(toks)] ELSE toks[pos + 1]

peek_token(toks, pos, offset) == current(toks, pos + offset)

match(toks, pos, types) == current(toks, pos).type \in types

POk(pos, val) == [ok |-> TRUE, pos |-> pos, val |-> val, err |-> None]

\* Parser.error and the ParseError it raises
PFail(toks, pos, msg) ==
    [ok |-> FALSE, pos |-> pos, val |-> None,
     err |-> [type |-> "ParseError", msg |-> msg,
              line |-> current(toks, pos).line,
              column |-> current(toks, pos).column]]

\* an exception other than ParseError raised while parsing
PRaise(toks, pos, type, msg) ==
    [PFail(toks, pos, msg) EXCEPT !.err.type = type]

expect(toks, pos, type) ==
    IF current(toks, pos).type # type
    THEN PFail(toks, pos, "Expected " \o type \o ", got "
                          \o current(toks, pos).type)
    ELSE POk(pos + 1, current(toks, pos))

RECURSIVE skip_newlines(_, _)
skip_newlines(toks, pos) ==
    IF match(toks, pos, {"NEWLINE", "COMMENT"})
    THEN skip_newlines(toks, pos + 1)
    ELSE pos

\* the matches of re.finditer(r'\$\{(\w+|@|#)\}', value) from index i on
\* (1-based), as records [start, end, name] with 0-based offsets
RECURSIVE FindInterpolations(_, _)
FindInterpolations(value, i) ==
    IF i > Len(value) THEN <<>>
    ELSE IF Sub(value, i, i + 1) = "${"
    THEN LET w == SpanEnd(value, i + 2, WordChars)
         IN  IF w > i + 2 /\ Sub(value, w, w) = "}"
             THEN <<[start |-> i - 1, end |-> w,
                     name |-> Sub(value, i + 2, w - 1)]>>
                  \o FindInterpolations(value, w + 1)
             ELSE IF w = i + 2 /\ Sub(value, i + 2, i + 2) \in {"@", "#"}
                     /\ Sub(value, i + 3, i + 3) = "}"
             THEN <<[start |-> i - 1, end |-> i + 3,
                     name |-> Sub(value, i + 2, i + 2)]>>
                  \o FindInterpolations(value, i + 4)
             ELSE FindInterpolations(value, i + 1)
    ELSE FindInterpolations(value, i + 1)

create_string_literal(value) ==
    StringLiteral(value, FindInterpolations(value, 1))

\* re.sub(r'\$(?![{\(])(\w+|@|#)', r'${\1}', text) from index i on
RECURSIVE ConvertFrom(_, _)
ConvertFrom(text, i) ==
    IF i > Len(text) THEN ""
    ELSE IF Sub(text, i, i) = "$"
    THEN LET w == SpanEnd(text, i + 1, WordChars)
         IN  IF w > i + 1
             THEN "${" \o Sub(text, i + 1, w - 1) \o "}"
                  \o ConvertFrom(text, w)
             ELSE IF Sub(text, i + 1, i + 1) \in {"@", "#"}
             THEN "${" \o Sub(text, i + 1, i + 1) \o "}"
                  \o ConvertFrom(text, i + 2)
             ELSE "$" \o ConvertFrom(text, i + 1)
    ELSE Sub(text, i, i) \o ConvertFrom(text, i + 1)

convert_vars_to_interpolation(text) == ConvertFrom(text, 1)

\* ArgRef.index: '@', '#' or an int
ArgIndex(text) ==
    IF text \in {"@", "#"} THEN [s |-> text, n |-> 0]
    ELSE [s |-> "int", n |-> ParseInt(text)]

HasDot(text) == \E i \in 1..Len(text) : Sub(text, i, i) = "."

SpecialTokens == {"CWD", "HOME", "NLPM_HOME", "SCRIPT_DIR", "OS"}

RECURSIVE parse_expression(_, _)
RECURSIVE parse_array_loop(_, _, _)
RECURSIVE parse_call_loop(_, _, _)

parse_array(toks, pos) ==
    LET closed(elems, close) ==
            IF ~close.ok THEN close
            ELSE POk(close.pos, ArrayLiteral(elems.val))
        filled(elems) ==
            IF ~elems.ok THEN elems
            ELSE closed(elems, expect(toks, elems.pos, "RBRACKET"))
        opened(open) ==
            IF ~open.ok THEN open
            ELSE filled(parse_array_loop(toks, open.pos, <<>>))
    IN  opened(expect(toks, pos, "LBRACKET"))

parse_array_loop(toks, pos, elements) ==
    LET element(e) ==
            IF ~e.ok THEN e
            ELSE IF match(toks, e.pos, {"COMMA", "COMMENT"})
            THEN parse_array_loop(toks, e.pos + 1, Append(elements, e.val))
            ELSE IF match(toks, e.pos, {"RBRACKET"})
            THEN POk(e.pos, Append(elements, e.val))
            ELSE PFail(toks, e.pos,
                       "Expected comma or closing bracket in array")
    IN  IF match(toks, pos, {"RBRACKET", "EOF"}) THEN POk(pos, elements)
        ELSE element(parse_expression(toks, pos))

parse_function_call(toks, pos) ==
    LET closed(name, callArgs, close) ==
            IF ~close.ok THEN close
            ELSE POk(close.pos, FunctionCall(name, callArgs.val))
        filled(name, callArgs) ==
            IF ~callArgs.ok THEN callArgs
            ELSE closed(name, callArgs, expect(toks, callArgs.pos, "RPAREN"))
        opened(name, open) ==
            IF ~open.ok THEN open
            ELSE filled(name, parse_call_loop(toks, open.pos, <<>>))
    IN  opened(current(toks, pos).value, expect(toks, pos + 1, "LPAREN"))

parse_call_loop(toks, pos, callArgs) ==
    LET argument(e) ==
            IF ~e.ok THEN e
            ELSE parse_call_loop(
                     toks,
                     IF match(toks, e.pos, {"COMMENT"}) THEN e.pos + 1
                     ELSE e.pos,
                     Append(callArgs, e.val))
    IN  IF match(toks, pos, {"RPAREN", "EOF"}) THEN POk(pos, callArgs)
        ELSE argument(parse_expression(toks, pos))

parse_primary(toks, pos) ==
    LET primary(tok) ==
            IF tok.type = "STRING"
            THEN POk(pos + 1, create_string_literal(tok.value))
            ELSE IF tok.type = "NUMBER"
            THEN IF HasDot(tok.value)
                 THEN IF FloatOk(tok.value)
                      THEN POk(pos + 1, NumberLiteral(VFloat(tok.value)))
                      ELSE PRaise(toks, pos + 1, "ValueError",
                                  "could not convert string to float: '"
                                      \o tok.value \o "'")
                 ELSE IF IntOk(tok.value)
                 THEN POk(pos + 1, NumberLiteral(VInt(ParseInt(tok.value))))
                 ELSE PRaise(toks, pos + 1, "ValueError",
                             IntError(tok.value).msg)
            ELSE IF tok.type = "BOOL"
            THEN POk(pos + 1, BoolLiteral(tok.value = "true"))
            ELSE IF tok.type = "VAR_REF"
            THEN POk(pos + 1, VariableRef(tok.value))
            ELSE IF tok.type \in SpecialTokens
            THEN POk(pos + 1, SpecialVarRef(tok.value))
            ELSE IF tok.type = "ARG_PREFIX"
            THEN IF tok.value \notin {"@", "#"} /\ ~IntOk(tok.value)
                 THEN PRaise(toks, pos + 1, "ValueError",
                             IntError(tok.value).msg)
                 ELSE POk(pos + 1, ArgRef(ArgIndex(tok.value)))
            ELSE IF tok.type = "LBRACKET"
            THEN parse_array(toks, pos)
            ELSE IF tok.type = "IDENTIFIER"
            THEN IF peek_token(toks, pos, 1).type = "LPAREN"
                 THEN parse_function_call(toks, pos)
                 ELSE POk(pos + 1, VariableRef(tok.value))
            ELSE PFail(toks, pos,
                       "Unexpected token in expression: " \o tok.type)
    IN  primary(current(toks, pos))

parse_comparison(toks, pos) ==
    LET compared(left, op, right) ==
            IF ~right.ok THEN right
            ELSE POk(right.pos, Comparison(left.val, op, right.val))
        operand(left) ==
            IF ~left.ok THEN left
            ELSE IF match(toks, left.pos, {"GT", "LT", "EQ"})
            THEN compared(left, current(toks, left.pos).value,
                          parse_primary(toks, left.pos + 1))
            ELSE left
    IN  operand(parse_primary(toks, pos))

parse_expression(toks, pos) == parse_comparison(toks, pos)

\* the loop of parse_run: the fragments of the command, up to the end of
\* the line
RECURSIVE parse_run_loop(_, _, _)
parse_run_loop(toks, pos, cmd_parts) ==
    LET fragment(tok) ==
            IF tok.type \in {"NEWLINE", "EOF", "COMMENT"}
            THEN POk(pos, cmd_parts)
            ELSE IF tok.type = "IDENTIFIER" /\ tok.value = "\\"
                    /\ peek_token(toks, pos, 1).type = "STRING"
            THEN parse_run_loop(
                     toks, pos + 2,
                     Append(cmd_parts,
                            convert_vars_to_interpolation(
                                "\"" \o peek_token(toks, pos, 1).value)))
            ELSE IF tok.type = "STRING"
            THEN parse_run_loop(
                     toks, pos + 1,
                     Append(cmd_parts,
                            "\"" \o convert_vars_to_interpolation(tok.value)
                            \o "\""))
            ELSE IF tok.type \in {"VAR_REF", "ARG_PREFIX"} \cup SpecialTokens
            THEN parse_run_loop(toks, pos + 1,
                                Append(cmd_parts, "${" \o tok.value \o "}"))
            ELSE parse_run_loop(toks, pos + 1, Append(cmd_parts, tok.value))
    IN  fragment(current(toks, pos))

parse_run(toks, pos) ==
    LET command(parts) ==
            POk(parts.pos,
                RunCommand(create_string_literal(Join(parts.val, " "))))
    IN  command(parse_run_loop(toks, skip_newlines(toks, pos + 1), <<>>))

parse_cd(toks, pos) ==
    LET target(path) ==
            IF ~path.ok THEN path ELSE POk(path.pos, CdCommand(path.val))
    IN  target(parse_expression(toks, skip_newlines(toks, pos + 1)))

\* parse_assignment and parse_var_assignment: the target is an IDENTIFIER or
\* a VAR_REF token, and both give the bare name
parse_assignment(toks, pos) ==
    LET assigned(name, value) ==
            IF ~value.ok THEN value
            ELSE POk(value.pos, Assignment(name, value.val))
        target(name, eq) ==
            IF ~eq.ok THEN eq
            ELSE assigned(name, parse_expression(toks, eq.pos))
    IN  target(current(toks, pos).value, expect(toks, pos + 1, "ASSIGN"))

parse_var_assignment(toks, pos) == parse_assignment(toks, pos)

RECURSIVE parse_statement(_, _)
RECURSIVE parse_block_loop(_, _, _)

parse_block(toks, pos) ==
    parse_block_loop(toks, skip_newlines(toks, pos), <<>>)

parse_block_loop(toks, pos, statements) ==
    LET statement(stmt) ==
            IF ~stmt.ok THEN stmt
            ELSE parse_block_loop(
                     toks, skip_newlines(toks, stmt.pos),
                     IF stmt.val = None THEN statements
                     ELSE Append(statements, stmt.val))
    IN  IF match(toks, pos, {"RBRACE", "EOF"}) THEN POk(pos, statements)
        ELSE IF match(toks, pos, {"COMMENT"})
        THEN parse_block_loop(toks, pos + 1, statements)
        ELSE statement(parse_statement(toks, pos))

\* `{ block }`: expect(LBRACE), parse_block(), expect(RBRACE)
braced_block(toks, pos) ==
    LET closed(body, close) ==
            IF ~close.ok THEN close ELSE POk(close.pos, body.val)
        filled(body) ==
            IF ~body.ok THEN body
            ELSE closed(body, expect(toks, body.pos, "RBRACE"))
        opened(open) ==
            IF ~open.ok THEN open ELSE filled(parse_block(toks, open.pos))
    IN  opened(expect(toks, pos, "LBRACE"))

\* else_block is Optional: <<>> for None, <<block>> for a block
parse_if(toks, pos) ==
    LET with_else(condition, then_block, else_block) ==
            IF ~else_block.ok THEN else_block
            ELSE POk(else_block.pos,
                     IfStatement(condition.val, then_block.val,
                                 <<else_block.val>>))
        with_then(condition, then_block) ==
            IF ~then_block.ok THEN then_block
            ELSE IF match(toks, then_block.pos, {"ELSE"})
            THEN with_else(condition, then_block,
                           braced_block(toks, then_block.pos + 1))
            ELSE POk(then_block.pos,
                     IfStatement(condition.val, then_block.val, <<>>))
        with_condition(condition) ==
            IF ~condition.ok THEN condition
            ELSE with_then(condition, braced_block(toks, condition.pos))
    IN  with_condition(parse_expression(toks, pos + 1))

parse_for(toks, pos) ==
    LET with_body(var_name, iterable, body) ==
            IF ~body.ok THEN body
            ELSE POk(body.pos, ForLoop(var_name, iterable.val, body.val))
        with_iterable(var_name, iterable) ==
            IF ~iterable.ok THEN iterable
            ELSE with_body(var_name, iterable,
                           braced_block(toks, iterable.pos))
        with_in(var_name, in) ==
            IF ~in.ok THEN in
            ELSE with_iterable(var_name, parse_expression(toks, in.pos))
    IN  IF ~match(toks, pos + 1, {"VAR_REF"})
        THEN PFail(toks, pos + 1, "Expected $variable after 'for'")
        ELSE with_in(current(toks, pos + 1).value,
                     expect(toks, pos + 2, "IN"))

RECURSIVE parse_params_loop(_, _, _)
parse_params_loop(toks, pos, params) ==
    IF match(toks, pos, {"RPAREN", "EOF"}) THEN POk(pos, params)
    ELSE IF match(toks, pos, {"VAR_REF", "IDENTIFIER"})
    THEN parse_params_loop(
             toks,
             IF match(toks, pos + 1, {"COMMENT"}) THEN pos + 2 ELSE pos + 1,
             Append(params, current(toks, pos).value))
    ELSE PFail(toks, pos, "Expected parameter name")

parse_function_def(toks, pos) ==
    LET with_body(name, params, body) ==
            IF ~body.ok THEN body
            ELSE POk(body.pos, FunctionDef(name, params.val, body.val))
        closed(name, params, close) ==
            IF ~close.ok THEN close
            ELSE with_body(name, params, braced_block(toks, close.pos))
        with_params(name, params) ==
            IF ~params.ok THEN params
            ELSE closed(name, params, expect(toks, params.pos, "RPAREN"))
        opened(name, open) ==
            IF ~open.ok THEN open
            ELSE with_params(name, parse_params_loop(toks, open.pos, <<>>))
    IN  IF ~match(toks, pos + 1, {"IDENTIFIER"})
        THEN PFail(toks, pos + 1, "Expected function name after 'fn'")
        ELSE opened(current(toks, pos + 1).value,
                    expect(toks, pos + 2, "LPAREN"))

parse_os_block(toks, pos) ==
    LET with_body(os_name, body) ==
            IF ~body.ok THEN body
            ELSE POk(body.pos, OsBlock(os_name, body.val))
        host(os_name) ==
            IF os_name \notin {"windows", "unix"}
            THEN PFail(toks, pos + 2,
                       "Expected 'windows' or 'unix', got '" \o os_name
                       \o "'")
            ELSE with_body(os_name, braced_block(toks, pos + 2))
    IN  IF ~match(toks, pos + 1, {"IDENTIFIER"})
        THEN PFail(toks, pos + 1, "Expected 'windows' or 'unix' after 'on'")
        ELSE host(current(toks, pos + 1).value)

parse_parallel(toks, pos) ==
    LET with_body(body) ==
            IF ~body.ok THEN body ELSE POk(body.pos, ParallelBlock(body.val))
    IN  with_body(braced_block(toks, pos + 1))

\* the dispatch of parse_statement on the token at pos, newlines skipped;
\* val is None where the source returns None
statement_at(toks, pos, tok) ==
    IF tok.type = "EOF" THEN POk(pos, None)
    ELSE IF tok.type = "COMMENT" THEN POk(pos + 1, None)
    ELSE IF tok.type = "RUN" THEN parse_run(toks, pos)
    ELSE IF tok.type = "CD" THEN parse_cd(toks, pos)
    ELSE IF tok.type = "IF" THEN parse_if(toks, pos)
    ELSE IF tok.type = "FOR" THEN parse_for(toks, pos)
    ELSE IF tok.type = "FN" THEN parse_function_def(toks, pos)
    ELSE IF tok.type = "ON" THEN parse_os_block(toks, pos)
    ELSE IF tok.type = "PARALLEL" THEN parse_parallel(toks, pos)
    ELSE IF tok.type = "IDENTIFIER"
            /\ peek_token(toks, pos, 1).type = "ASSIGN"
    THEN parse_assignment(toks, pos)
    ELSE IF tok.type = "IDENTIFIER"
            /\ peek_token(toks, pos, 1).type = "LPAREN"
    THEN parse_function_call(toks, pos)
    ELSE IF tok.type = "VAR_REF" THEN parse_var_assignment(toks, pos)
    ELSE PFail(toks, pos, "Unexpected token: " \o tok.value)

parse_statement(toks, pos) ==
    LET skipped(at) == statement_at(toks, at, current(toks, at))
    IN  skipped(skip_newlines(toks, pos))

\* Parser.parse: the loop over the top-level statements
RECURSIVE parse_loop(_, _, _)
parse_loop(toks, pos, statements) ==
    LET statement(stmt) ==
            IF ~stmt.ok THEN stmt
            ELSE parse_loop(toks, skip_newlines(toks, stmt.pos),
                            IF stmt.val = None THEN statements
                            ELSE Append(statements, stmt.val))
    IN  IF match(toks, pos, {"EOF"}) THEN POk(pos, statements)
        ELSE statement(parse_statement(toks, pos))

Parser_parse(toks) == parse_loop(toks, skip_newlines(toks, 0), <<>>)

\* parse(source): [ok, val, err], val the statements; the whole source is
\* tokenized, then the whole token list is parsed
parse(src) ==
    LET parsed(lexed) ==
            IF ~lexed.ok
            THEN [ok |-> FALSE, pos |-> 0, val |-> <<>>, err |-> lexed.err]
            ELSE Parser_parse(lexed.tokens)
    IN  parsed(tokenize(src))

(***************************************************************************)
(* Interpreter: values.                                                    *)
(***************************************************************************)
\* a dict: a function over the finite set of its keys
EmptyMap == [k \in {} |-> VNone]

Put(map, key, value) ==
    [k \in DOMAIN map \cup {key} |-> IF k = key THEN value ELSE map[k]]

\* repr(value) and str(value) of Python
RECURSIVE PyRepr(_)
RECURSIVE PyReprAll(_)
PyReprAll(elems) ==
    IF Len(elems) = 0 THEN <<>>
    ELSE <<PyRepr(elems[1])>> \o PyReprAll(Tail(elems))

PyRepr(value) ==
    CASE value.t = "str" -> "'" \o value.v \o "'"
      [] value.t = "int" -> ToString(value.v)
      [] value.t = "float" -> value.v
      [] value.t = "bool" -> IF value.v THEN "True" ELSE "False"
      [] value.t = "list" -> "[" \o Join(PyReprAll(value.v), ", ") \o "]"
      [] OTHER -> "None"

PyStr(value) == IF value.t = "str" THEN value.v ELSE PyRepr(value)

\* bool(value) of Python
Truthy(value) ==
    CASE value.t = "str" -> value.v # ""
      [] value.t = "int" -> value.v # 0
      [] value.t = "float" ->
             \E i \in 1..Len(value.v) :
                 Sub(value.v, i, i) \in Decimals \ {"0"}
      [] value.t = "bool" -> value.v
      [] value.t = "list" -> Len(value.v) > 0
      [] OTHER -> FALSE

\* the number a bool or an int compares as
AsInt(value) == IF value.t = "bool" THEN (IF value.v THEN 1 ELSE 0)
                ELSE value.v

IsNumber(value) == value.t \in {"int", "bool"}

\* left == right of Python
RECURSIVE PyEq(_, _)
PyEq(left, right) ==
    IF IsNumber(left) /\ IsNumber(right) THEN AsInt(left) = AsInt(right)
    ELSE IF left.t # right.t THEN FALSE
    ELSE IF left.t = "list"
    THEN /\ Len(left.v) = Len(right.v)
         /\ \A i \in 1..Len(left.v) : PyEq(left.v[i], right.v[i])
    ELSE IF left.t = "none" THEN TRUE
    ELSE left.v = right.v

\* the exceptions of the model: [type, msg]
NoExc == [type |-> "", msg |-> ""]
Exc(type, msg) == [type |-> type, msg |-> msg]
InterpreterError(msg) == Exc("InterpreterError", msg)

\* the result of an evaluation step: a value or the exception raised
Val(value) == [ok |-> TRUE, val |-> value, exc |-> NoExc]
Raised(exc) == [ok |-> FALSE, val |-> VNone, exc |-> exc]

\* the printable ASCII characters in code order (the grave accent, which
\* no script of the model holds, is left out)
Ascii ==
    " !\"#$%&'()*+,-./0123456789:;<=>?@ABCDEFGHIJKLMNOPQRSTUVWXYZ[\\]^_"
    \o "abcdefghijklmnopqrstuvwxyz{|}~"

\* ord(c), up to a constant
Ord(c) == CHOOSE i \in 1..Len(Ascii) : Sub(Ascii, i, i) = c

RECURSIVE StrLess(_, _)
StrLess(a, b) ==
    IF Len(b) = 0 THEN FALSE
    ELSE IF Len(a) = 0 THEN TRUE
    ELSE IF Sub(a, 1, 1) = Sub(b, 1, 1)
    THEN StrLess(Sub(a, 2, Len(a)), Sub(b, 2, Len(b)))
    ELSE Ord(Sub(a, 1, 1)) < Ord(Sub(b, 1, 1))

\* left < right of Python: numbers, strings, and lists in lexicographic
\* order; every other pair of operands is a TypeError
RECURSIVE PyLess(_, _)
PyLess(left, right) ==
    IF IsNumber(left) /\ IsNumber(right)
    THEN Val(VBool(AsInt(left) < AsInt(right)))
    ELSE IF left.t = "str" /\ right.t = "str"
    THEN Val(VBool(StrLess(left.v, right.v)))
    ELSE IF left.t = "list" /\ right.t = "list"
    THEN IF Len(right.v) = 0 THEN Val(VBool(FALSE))
         ELSE IF Len(left.v) = 0 THEN Val(VBool(TRUE))
         ELSE IF PyEq(left.v[1], right.v[1])
         THEN PyLess(VList(Tail(left.v)), VList(Tail(right.v)))
         ELSE PyLess(left.v[1], right.v[1])
    ELSE Raised(Exc("TypeError", "'<' not supported between instances"))

(***************************************************************************)
(* Interpreter: the host.                                                  *)
(***************************************************************************)
\* str(Path.home())
HomeDir == "/home/u"
\* the directory of the script: Interpreter.script_path.parent
ScriptDir == "/w"
\* Path.cwd() when the interpreter is built
StartDir == "/w"
\* the directories and the plain files of the file system
Directories == {"/", "/w", "/w/sub", "/w/locked", "/home", "/home/u"}
\* the directories the process may enter: /w/locked has no search permission
Searchable == Directories \ {"/w/locked"}
PlainFiles == {"/w/file"}
\* os.environ when the interpreter is built
HostEnvironment == [k \in {"PATH"} |-> "/bin"]

\* a host test that takes every host for a unix
always_unix(os_name) == "unix"

\* 'windows' if os.name == 'nt' else 'unix'
current_os(os_name) == IF os_name = "nt" THEN "windows" ELSE "unix"

(***************************************************************************)
(* Interpreter: the expressions that evaluate without a call.  st is the   *)
(* interpreter state read: [variables, args, cwd, os].                     *)
(***************************************************************************)
get_special_var(st, name) ==
    IF name = "CWD" THEN Val(VStr(st.cwd))
    ELSE IF name = "HOME" THEN Val(VStr(HomeDir))
    ELSE IF name = "NLPM_HOME" THEN Val(VStr(HomeDir \o "/.nlpm"))
    ELSE IF name = "SCRIPT_DIR" THEN Val(VStr(ScriptDir))
    ELSE IF name = "OS" THEN Val(VStr(current_os(st.os)))
    ELSE Raised(InterpreterError("Unknown special variable: " \o name))

\* a numbered argument counted from 0
PositionalFromZero(st, var_name) ==
    IF ParseInt(var_name) < Len(st.args)
    THEN st.args[ParseInt(var_name) + 1] ELSE ""

\* lines 60-64: the text of the numbered argument, int(var_name) returned
Positional(st, var_name) ==
    IF 0 <= ParseInt(var_name) - 1 /\ ParseInt(var_name) - 1 < Len(st.args)
    THEN st.args[ParseInt(var_name)] ELSE ""

\* the replacement text of one interpolation span, or the exception the
\* span raises
Replacement(st, var_name) ==
    IF var_name = "@" THEN Val(VStr(Join(st.args, " ")))
    ELSE IF var_name = "#" THEN Val(VStr(ToString(Len(st.args))))
    ELSE IF IsDigits(var_name)
    THEN IF IntOk(var_name) THEN Val(VStr(Positional(st, var_name)))
         ELSE Raised(IntError(var_name))
    ELSE IF var_name \in DOMAIN st.variables
    THEN Val(VStr(PyStr(st.variables[var_name])))
    ELSE IF get_special_var(st, var_name).ok
    THEN Val(VStr(PyStr(get_special_var(st, var_name).val)))
    ELSE Val(VStr("${" \o var_name \o "}"))

\* result[:start] + replacement + result[end:]
Splice(text, span, replacement) ==
    Sub(text, 1, span.start) \o replacement
        \o Sub(text, span.end + 1, Len(text))

\* a loop that substitutes the spans from the first to the last at the
\* offsets recorded by the parser: the last n spans are still to be
\* substituted
RECURSIVE InterpolateForward(_, _, _, _)
InterpolateForward(st, text, spans, n) ==
    IF n = 0 THEN Val(VStr(text))
    ELSE IF ~Replacement(st, spans[Len(spans) - n + 1].name).ok
    THEN Replacement(st, spans[Len(spans) - n + 1].name)
    ELSE InterpolateForward(
             st,
             Splice(text, spans[Len(spans) - n + 1],
                    Replacement(st, spans[Len(spans) - n + 1].name).val.v),
             spans, n - 1)

\* the loop over reversed(expr.interpolations): the first n spans are still
\* to be substituted into result.  It returns the string, or raises what a
\* span raises
RECURSIVE Interpolate(_, _, _, _)
Interpolate(st, text, spans, n) ==
    IF n = 0 THEN Val(VStr(text))
    ELSE IF ~Replacement(st, spans[n].name).ok
    THEN Replacement(st, spans[n].name)
    ELSE Interpolate(
             st,
             Splice(text, spans[n], Replacement(st, spans[n].name).val.v),
             spans, n - 1)

ListOfStr(strs) == VList([i \in 1..Len(strs) |-> VStr(strs[i])])

IsLeaf(expr) ==
    expr.node \in {"StringLiteral", "NumberLiteral", "BoolLiteral",
                   "VariableRef", "SpecialVarRef", "ArgRef"}

\* Interpreter.evaluate on a literal or a reference
evaluate_leaf(st, expr) ==
    IF expr.node = "StringLiteral"
    THEN Interpolate(st, expr.value, expr.interpolations,
                     Len(expr.interpolations))
    ELSE IF expr.node = "NumberLiteral" THEN Val(expr.value)
    ELSE IF expr.node = "BoolLiteral" THEN Val(VBool(expr.value))
    ELSE IF expr.node = "VariableRef"
    THEN IF expr.name \notin DOMAIN st.variables
         THEN Raised(InterpreterError("Undefined variable: " \o expr.name))
         ELSE Val(st.variables[expr.name])
    ELSE IF expr.node = "SpecialVarRef"
    THEN get_special_var(st, expr.name)
    ELSE IF expr.index.s = "@" THEN Val(ListOfStr(st.args))
    ELSE IF expr.index.s = "#" THEN Val(VInt(Len(st.args)))
    ELSE LET idx == expr.index.n - 1
         IN  IF idx < 0 \/ idx >= Len(st.args) THEN Val(VStr(""))
             ELSE Val(VStr(st.args[idx + 1]))

\* the Comparison branch of Interpreter.evaluate, both sides evaluated
compare(operator, left, right) ==
    IF operator = ">" THEN PyLess(right, left)
    ELSE IF operator = "<" THEN PyLess(left, right)
    ELSE IF operator = "==" THEN Val(VBool(PyEq(left, right)))
    ELSE Raised(InterpreterError("Unknown operator: " \o operator))

(***************************************************************************)
(* Interpreter: threads and frames.                                        *)
(*                                                                         *)
(* A thread is [stack, val, exc, parent].  stack holds one frame per       *)
(* active call or loop of the Python code, the innermost last; val is the  *)
(* value the last finished evaluate() returned; exc is the exception       *)
(* being propagated (NoExc when none is); parent is the thread that        *)
(* submitted this one to a pool (0 for the thread that called run()).  A   *)
(* thread with an empty stack has finished.                                *)
(*                                                                         *)
(* A frame is a record tagged by k: the function or the statement it       *)
(* stands for.  Its other fields are that function's local variables, and  *)
(* pc names the place where it continues.                                  *)
(***************************************************************************)
Thread(stack, parent) ==
    [stack |-> stack, val |-> VNone, exc |-> NoExc, parent |-> parent]

\* the greatest number of nested call_function calls of one thread: it
\* stands for Python's recursion limit
MaxDepth == 3

\* run(source): pc is "parse" or "return"
RunFrame == [k |-> "run", pc |-> "parse"]

\* execute(statements) and the body loop of call_function: i statements
\* have been started
ExecuteFrame(stmts) == [k |-> "execute", stmts |-> stmts, i |-> 0]

\* evaluate(expr), not yet started
EvaluateFrame(expr) == [k |-> "evaluate", expr |-> expr]

\* call_function(call).  pre and bound are history: the variables and the
\* environment when the call was entered, and the values bound so far
CallFrame(call) ==
    [k |-> "call", call |-> call, pc |-> "enter",
     func |-> FunctionDef("", <<>>, <<>>), i |-> 0, value |-> VNone,
     old_vars |-> EmptyMap, old_env |-> EmptyMap,
     pre |-> [variables |-> EmptyMap, environment |-> EmptyMap],
     bound |-> <<>>]

\* execute_in_thread(stmt)
WorkerFrame(stmt) == [k |-> "worker", stmt |-> stmt, pc |-> "start"]

\* the frames execute_statement(stmt) starts with: the statement's own
\* frame and, above it, the evaluation of its first expression
Dispatch(stmt) ==
    IF stmt.node = "Assignment"
    THEN <<[k |-> "Assignment", stmt |-> stmt, pc |-> "bind",
            value |-> VNone],
           EvaluateFrame(stmt.value)>>
    ELSE IF stmt.node = "RunCommand"
    THEN <<[k |-> "RunCommand", stmt |-> stmt],
           EvaluateFrame(stmt.command)>>
    ELSE IF stmt.node = "CdCommand"
    THEN <<[k |-> "CdCommand", stmt |-> stmt, pc |-> "resolve",
            new_path |-> ""],
           EvaluateFrame(stmt.path)>>
    ELSE IF stmt.node = "IfStatement"
    THEN <<[k |-> "IfStatement", stmt |-> stmt],
           EvaluateFrame(stmt.condition)>>
    ELSE IF stmt.node = "ForLoop"
    THEN <<[k |-> "ForLoop", stmt |-> stmt, pc |-> "iterable",
            iterable |-> VNone, items |-> <<>>, i |-> 0],
           EvaluateFrame(stmt.iterable)>>
    ELSE IF stmt.node = "FunctionDef"
    THEN <<[k |-> "FunctionDef", stmt |-> stmt]>>
    ELSE IF stmt.node = "FunctionCall"
    THEN <<CallFrame(stmt)>>
    ELSE IF stmt.node = "OsBlock"
    THEN <<[k |-> "OsBlock", stmt |-> stmt]>>
    ELSE <<[k |-> "ParallelBlock", stmt |-> stmt,
            pc |-> IF Len(stmt.body) = 0 THEN "wait" ELSE "submit",
            i |-> 0, children |-> <<>>, collected |-> {},
            errors |-> <<>>]>>

Front(seq) == SubSeq(seq, 1, Len(seq) - 1)
Last(seq) == seq[Len(seq)]

Stack(t) == threads[t].stack
Top(t) == Last(Stack(t))

\* thread t runs, and its innermost frame is a k frame
At(t, k) ==
    /\ Len(Stack(t)) > 0
    /\ threads[t].exc = NoExc
    /\ Top(t).k = k

\* the same, also while an exception propagates (a finally clause)
AtAlways(t, k) ==
    /\ Len(Stack(t)) > 0
    /\ Top(t).k = k

\* a call_function is active on the stack
InCall(stack) == \E n \in 1..Len(stack) : stack[n].k = "call"

\* a call_function whose try block has no finally clause
HandlesNoFinally(frame) == frame.k \in {"run", "worker"}

\* the frames that catch an exception raised above them: run() and
\* execute_in_thread (except Exception), and a call_function that has
\* entered its try block (finally)
Handles(frame) ==
    \/ frame.k \in {"run", "worker"}
    \/ frame.k = "call" /\ frame.pc \in {"bind_var", "bind_env", "body"}

\* the stack after an exception raised by its innermost frame has
\* propagated to the nearest handler, which continues at its handler
RECURSIVE Unwind(_)
Unwind(stack) ==
    IF Len(stack) = 0 THEN stack
    ELSE IF Handles(Last(stack))
    THEN IF Last(stack).k = "call"
         THEN Append(Front(stack), [Last(stack) EXCEPT !.pc = "finally"])
         ELSE stack
    ELSE Unwind(Front(stack))

\* the thread after its innermost frame has raised exc
Raise(thread, exc) ==
    [thread EXCEPT !.stack = Unwind(Front(thread.stack)), !.exc = exc]

\* the thread after its innermost frame has returned value
Return(thread, value) ==
    [thread EXCEPT !.stack = Front(thread.stack), !.val = value]

\* the thread with its innermost frame replaced by frames
Replace(thread, frames) ==
    [thread EXCEPT !.stack = Front(thread.stack) \o frames]

\* the state evaluate() reads
Reads == [variables |-> variables, args |-> args, cwd |-> cwd, os |-> hostOs]

state == <<variables, functions, environment, cwd, osCwd>>
\* what run() reads and never writes: its inputs, and the package registry
\* that only the nlpm commands touch
input ==
    <<source, args, hostOs, registry, cli, lexer, scripts>>

(***************************************************************************)
(* The scripts, the arguments and the hosts the model runs.                *)
(***************************************************************************)
\* f calls g and g calls h: g reads the parameter and the assignment of f,
\* h reads the assignment of g
NestedCalls ==
    "fn h() {\n  u = $w\n}\nfn g() {\n  r = $p\n  s = $w\n  w = 5\n"
        \o "  h()\n}\nfn f(p) {\n  w = 2\n  g()\n}\nw = 0\nf(1)"

\* a loop whose body reads what the iteration before assigned
Accumulate == "a = 0\nfor $i in [1, 2] {\n  b = $a\n  a = $i\n}\nc = $a"

\* if statements over a zero float, an empty string without else, and a
\* list with an empty else
Branches ==
    "if 0.0 {\n  x = 1\n} else {\n  y = 1\n}\nif \"\" {\n  z = 1\n}\n"
        \o "if [0] {\n  t = 1\n} else {\n}"

\* f is defined twice, and its second body defines g
Redefined ==
    "fn f() {\n  a = 1\n}\nfn f() {\n  a = 2\n  fn g() {\n    b = 3\n"
        \o "  }\n}\nf()\ng()"

\* a run with nothing after it on its line, and a statement on the next
RunAlone == "run\nx = 1"

\* the second of three children calls a function that is not defined
ChildFails == "parallel {\n x = 1\n nofn()\n y = 2\n}\nz = 3"

Sources ==
    { "x = $1\ny = \"a${x}$#\"",
      "x = 1\ncd \"sub\"\ny = \"a",
      "x = 1\nfn f() {\n}\ncd \"sub\"\nrun ls\ny = = 2",
      "fn f(a b) { z = $a\n a = 7 }\na = 1\nb = 2\nf($b $a)\nc = $a",
      ChildFails,
      "run \"echo hi\"",
      "run false\nx = 1",
      "fn f() {\n}\nparallel {\n  x = 1\n  f()\n}",
      "parallel {\n  x = 1\n  x = 2\n}",
      "fn f(a b) {\n  q = 1\n}\nx = 1\nf(1)\ny = 2",
      "fn g() {\n  q = 1\n}\nx = 1\ng($x)",
      "for $i in [1, 2] {\n  if $i > 1 {\n    cd \"sub\"\n  } else {\n"
          \o "    y = $CWD\n  }\n}\non windows {\n  w = $OS\n}\n"
          \o "on unix {\n  u = $OS\n}",
      "if $1 == \"v\" {\n  cd \"..\"\n} else {\n  cd \"file\"\n}\n"
          \o "for $i in $# {\n}",
      "fn r() {\n  r()\n}\nr()",
      "for $i in \"ab\" {\n  x = 1\n}",
      "for $i in true {\n  x = 1\n}",
      "x = 1\nfn f() {\n  x = 2\n  q = 3\n  cd \"sub\"\n  fn g() {\n  }\n"
          \o "  nofn()\n}\nf()\ny = 4",
      "fn f(a, $b) {\n}\nf(1, 2)",
      "x = $0\ny = $1\n"
          \o "z = \"${0}[${1}]${2}${y}-${HOME}${nope}${@}${#}\"",
      "x = 1\ny = \"a${²}\"",
      "HOME = \"h\"\nx = \"${HOME}${OS}\"\nw = $u",
      "on windows {\n  w = 1\n  cd \"sub\"\n  fn k() {\n  }\n}\n"
          \o "on unix {\n  u = 1\n  cd \"..\"\n  fn j() {\n  }\n}",
      "fn f() {\n}\nx = f()\ny = $x == $x",
      "fn h(a) {\n  b = $a\n  b = [$a]\n}\nfn f(a) {\n  h($a)\n}\nf(1)",
      NestedCalls,
      "parallel {\n  cd \"locked\"\n}\nx = $CWD",
      "parallel {\n  cd \"sub\"\n  cd \"..\"\n}\nx = 1\ncd \"nodir\"",
      "cd \"sub\"\ncd \"../locked\"",
      Accumulate,
      Branches,
      Redefined,
      RunAlone,
      "parallel {\n  for $i in [1, 2] {\n  }\n  y = 1\n}",
      "for $i in [] {\n  x = 1\n}\nfor $j in [1] {\n  j = 9\n}" }

\* the greatest number of command-line arguments
MaxArgs == 1

RECURSIVE ArgListsUpTo(_)
ArgListsUpTo(n) ==
    IF n = 0 THEN {<<>>}
    ELSE ArgListsUpTo(n - 1)
         \cup {Append(as, "v") : as \in {l \in ArgListsUpTo(n - 1) :
                                             Len(l) = n - 1}}

ArgLists == ArgListsUpTo(MaxArgs)

HostNames == {"posix", "nt"}

(***************************************************************************)
(* run(): interpreter.py, lines 314-326.                                   *)
(***************************************************************************)
\* db.init_db: the three tables, empty
EmptyRegistry == [libraries |-> <<>>, versions |-> <<>>, package_files |-> {}]
NoCommand == [command |-> "none"]

Running == [state |-> "running", value |-> 0]
Returned(value) == [state |-> "returned", value |-> value]
Propagated == [state |-> "raised", value |-> 0]

Init ==
    /\ source \in Sources
    /\ args \in ArgLists
    /\ hostOs \in HostNames
    /\ variables = EmptyMap
    /\ functions = EmptyMap
    /\ environment = HostEnvironment
    /\ cwd = StartDir
    /\ osCwd = StartDir
    /\ threads = <<Thread(<<RunFrame>>, 0)>>
    /\ output = <<>>
    /\ spawned = <<>>
    /\ result = Running
    /\ hist = [parsed |-> "no", nTop |-> 0, topDone |-> 0,
               lastWrite |-> EmptyMap, assigned |-> EmptyMap,
               top |-> EmptyMap, writers |-> EmptyMap, called |-> FALSE]
    /\ registry = EmptyRegistry
    /\ cli = NoCommand
    /\ lexer = LexInit
    /\ scripts = {}

\* str(e) of an error of the lexer or the parser: Lexer.error and
\* Parser.error put the position before the message
ErrorText(err) ==
    IF err.type \in {"SyntaxError", "ParseError"}
    THEN "Line " \o ToString(err.line) \o ", Column "
         \o ToString(err.column) \o ": " \o err.msg
    ELSE err.msg

\* the text of src before its first line break
FirstLine(src) ==
    IF \E i \in 1..Len(src) : Sub(src, i, i) = "\n"
    THEN Sub(src, 1, (CHOOSE i \in 1..Len(src) :
                         /\ Sub(src, i, i) = "\n"
                         /\ \A j \in 1..(i - 1) : Sub(src, j, j) # "\n") - 1)
    ELSE src

\* a faulty variant of RunTry: a source that does not parse has its first
\* line executed when that line parses by itself
RunTryLineByLine(parsed) ==
    IF parsed.ok \/ parse(FirstLine(source)).ok
    THEN [stack |-> <<[RunFrame EXCEPT !.pc = "return"],
                      ExecuteFrame(IF parsed.ok THEN parsed.val
                                   ELSE parse(FirstLine(source)).val)>>,
          exc |-> NoExc]
    ELSE [stack |-> <<RunFrame>>,
          exc |-> Exc(parsed.err.type, parsed.err.msg)]

\* the try block of run() once parse(source) has returned or raised:
\* self.execute(statements) is called only when parse() returned
RunTry(parsed) ==
    IF parsed.ok
    THEN [stack |-> <<[RunFrame EXCEPT !.pc = "return"],
                      ExecuteFrame(parsed.val)>>,
          exc |-> NoExc]
    ELSE [stack |-> <<RunFrame>>,
          exc |-> Exc(parsed.err.type, ErrorText(parsed.err))]

\* statements = parse(source), then the call of self.execute(statements)
RunParse(t) ==
    /\ At(t, "run")
    /\ Top(t).pc = "parse"
    /\ LET entered(parsed, try) ==
               /\ threads' = [threads EXCEPT ![t].stack = try.stack,
                                             ![t].exc = try.exc]
               /\ hist' = [hist EXCEPT
                              !.parsed = IF parsed.ok THEN "ok" ELSE "error",
                              !.nTop = IF parsed.ok THEN Len(parsed.val)
                                       ELSE 0]
           returned(parsed) == entered(parsed, RunTry(parsed))
       IN  returned(parse(source))
    /\ UNCHANGED <<input, state, output, spawned, result>>

\* return 0
RunReturn(t) ==
    /\ At(t, "run")
    /\ Top(t).pc = "return"
    /\ threads' = [threads EXCEPT ![t].stack = <<>>]
    /\ result' = Returned(0)
    /\ UNCHANGED <<input, state, output, spawned, hist>>

\* the exception types of the model, every one a subclass of Exception
ExceptionTypes ==
    {"SyntaxError", "ParseError", "InterpreterError", "AttributeError",
     "TypeError", "ValueError", "RecursionError", "RuntimeError",
     "OSError", "PermissionError"}

\* a faulty variant of Catches: `except InterpreterError`
CatchesInterpreterError(exc) == exc.type = "InterpreterError"

\* `except Exception`
Catches(exc) == exc.type \in ExceptionTypes

\* except Exception as e: print the error to stderr, return 1
RunExcept(t) ==
    /\ AtAlways(t, "run")
    /\ threads[t].exc # NoExc
    /\ threads' = [threads EXCEPT ![t].stack = <<>>]
    /\ IF Catches(threads[t].exc)
       THEN /\ output' = Append(output,
                                [stream |-> "stderr",
                                 text |-> "[nlps] Error: "
                                          \o threads[t].exc.msg])
            /\ result' = Returned(1)
       ELSE /\ output' = output
            /\ result' = Propagated
    /\ UNCHANGED <<input, state, spawned, hist>>

(***************************************************************************)
(* execute(), lines 125-128, and execute_statement(), lines 130-188.       *)
(***************************************************************************)
\* one turn of `for stmt in statements`: the next statement starts, or the
\* loop ends
ExecuteNext(t) ==
    /\ At(t, "execute")
    /\ LET frame == Top(t)
       IN  /\ IF frame.i = Len(frame.stmts)
              THEN threads' = [threads EXCEPT ![t] = Return(@, VNone)]
              ELSE threads' =
                       [threads EXCEPT ![t] =
                           Replace(@, <<[frame EXCEPT !.i = @ + 1]>>
                                      \o Dispatch(frame.stmts[frame.i + 1]))]
           /\ hist' = IF t = 1 /\ Len(Stack(t)) = 2
                      THEN [hist EXCEPT !.topDone = frame.i]
                      ELSE hist
    /\ UNCHANGED <<input, state, output, spawned, result>>

\* the history after worker thread t has bound name: writers holds, for
\* each name, the worker threads that have bound it since the parallel
\* block of the script began
Wrote(t, name) ==
    [hist EXCEPT !.writers =
        Put(@, name, (IF name \in DOMAIN @ THEN @[name] ELSE {}) \cup {t})]

\* the history after thread t has bound name to value: lastWrite holds
\* the last value a child of a parallel block of the script has assigned
\* directly; assigned the last value the thread of run() has bound, and
\* top the last value it has bound outside every function body
Written(t, name, value) ==
    IF threads[t].parent = 1 /\ Len(Stack(t)) = 2
    THEN [Wrote(t, name) EXCEPT !.lastWrite = Put(@, name, value)]
    ELSE IF t = 1
    THEN [hist EXCEPT !.assigned = Put(@, name, value),
                      !.top = IF InCall(Stack(t)) THEN @
                              ELSE Put(@, name, value)]
    ELSE Wrote(t, name)

\* self.environment[name] = str(value)
Export(env, name, value) == Put(env, name, PyStr(value))

\* Assignment: self.variables[stmt.name] = value
AssignVariable(t) ==
    /\ At(t, "Assignment")
    /\ Top(t).pc = "bind"
    /\ variables' = Put(variables, Top(t).stmt.name, threads[t].val)
    /\ threads' = [threads EXCEPT ![t] =
                      Replace(@, <<[Top(t) EXCEPT !.pc = "export",
                                                  !.value = threads[t].val]>>)]
    /\ hist' = Written(t, Top(t).stmt.name, threads[t].val)
    /\ UNCHANGED <<input, functions, environment, cwd, osCwd, output,
                   spawned, result>>

\* Assignment: self.environment[stmt.name] = str(value)
AssignExport(t) ==
    /\ At(t, "Assignment")
    /\ Top(t).pc = "export"
    /\ environment' = Export(environment, Top(t).stmt.name, Top(t).value)
    /\ threads' = [threads EXCEPT ![t] = Return(@, threads[t].val)]
    /\ UNCHANGED <<input, variables, functions, cwd, osCwd, output, spawned,
                   result, hist>>

\* Path(path), joined to the logical cwd when relative, and resolved
Parent(path) ==
    LET cut == CHOOSE i \in 1..Len(path) :
                   /\ Sub(path, i, i) = "/"
                   /\ \A j \in (i + 1)..Len(path) : Sub(path, j, j) # "/"
    IN  IF cut = 1 THEN "/" ELSE Sub(path, 1, cut - 1)

\* the length of the first component of a path: up to its first "/"
ComponentEnd(path) ==
    IF \E i \in 1..Len(path) : Sub(path, i, i) = "/"
    THEN (CHOOSE i \in 1..Len(path) :
              /\ Sub(path, i, i) = "/"
              /\ \A j \in 1..(i - 1) : Sub(path, j, j) # "/") - 1
    ELSE Len(path)

\* Path.resolve() on a file system without symbolic links: the components
\* of rest are walked from base, "." stays and ".." goes up
RECURSIVE Walk(_, _)
Walk(base, rest) ==
    IF rest = "" THEN base
    ELSE LET step(comp, tail) ==
                 IF comp = "" \/ comp = "." THEN Walk(base, tail)
                 ELSE IF comp = ".." THEN Walk(Parent(base), tail)
                 ELSE IF base = "/" THEN Walk("/" \o comp, tail)
                 ELSE Walk(base \o "/" \o comp, tail)
         IN  step(Sub(rest, 1, ComponentEnd(rest)),
                  Sub(rest, ComponentEnd(rest) + 2, Len(rest)))

\* lines 143-146: a relative path is joined to self.cwd, then resolved
ResolvePath(base, path) ==
    IF Sub(path, 1, 1) = "/" THEN Walk("/", path)
    ELSE Walk(base, path)

\* CdCommand, lines 142-151: the new path, checked
CdResolve(t) ==
    /\ At(t, "CdCommand")
    /\ Top(t).pc = "resolve"
    /\ LET path == threads[t].val
           new_path == ResolvePath(cwd, path.v)
       IN  threads' =
               [threads EXCEPT ![t] =
                   IF path.t # "str"
                   THEN Raise(@, Exc("TypeError",
                                     "expected str, bytes or os.PathLike"))
                   ELSE IF new_path \notin Directories \cup PlainFiles
                   THEN Raise(@, InterpreterError(
                                     "Directory does not exist: " \o path.v))
                   ELSE IF new_path \notin Directories
                   THEN Raise(@, InterpreterError(
                                     "Not a directory: " \o path.v))
                   ELSE Replace(@, <<[Top(t) EXCEPT !.pc = "cwd",
                                                    !.new_path = new_path]>>)]
    /\ UNCHANGED <<input, state, output, spawned, result, hist>>

\* CdCommand: self.cwd = str(new_path)
CdSetCwd(t) ==
    /\ At(t, "CdCommand")
    /\ Top(t).pc = "cwd"
    /\ cwd' = Top(t).new_path
    /\ threads' = [threads EXCEPT ![t] =
                      Replace(@, <<[Top(t) EXCEPT !.pc = "chdir"]>>)]
    /\ UNCHANGED <<input, variables, functions, environment, osCwd, output,
                   spawned, result, hist>>

\* CdCommand: os.chdir(self.cwd), which raises PermissionError for a
\* directory the process may not enter
CdChdir(t) ==
    /\ At(t, "CdCommand")
    /\ Top(t).pc = "chdir"
    /\ osCwd' = IF cwd \in Searchable THEN cwd ELSE osCwd
    /\ threads' = [threads EXCEPT ![t] =
                      IF cwd \in Searchable THEN Return(@, threads[t].val)
                      ELSE Raise(@, Exc("PermissionError",
                                        "[Errno 13] Permission denied: '"
                                            \o cwd \o "'"))]
    /\ UNCHANGED <<input, variables, functions, environment, cwd, output,
                   spawned, result, hist>>

\* IfStatement: the branch taken
\* a faulty variant of Taken: the then-block whatever the condition is
TakenThen(stmt, condition) == "then"

\* lines 158-161: `if condition:` takes the then-block, `elif
\* stmt.else_block:` the else-block unless it is None or empty
Taken(stmt, condition) ==
    IF Truthy(condition) THEN "then"
    ELSE IF Len(stmt.else_block) > 0 /\ Len(stmt.else_block[1]) > 0
    THEN "else"
    ELSE "none"

IfBranch(t) ==
    /\ At(t, "IfStatement")
    /\ LET stmt == Top(t).stmt
       IN  threads' =
               [threads EXCEPT ![t] =
                   IF Taken(stmt, threads[t].val) = "then"
                   THEN Replace(@, <<ExecuteFrame(stmt.then_block)>>)
                   ELSE IF Taken(stmt, threads[t].val) = "else"
                   THEN Replace(@, <<ExecuteFrame(stmt.else_block[1])>>)
                   ELSE Return(@, threads[t].val)]
    /\ UNCHANGED <<input, state, output, spawned, result, hist>>

\* a loop that takes a value that is no list for a list of one item
IterableOrScalar(iterable) ==
    [ok    |-> TRUE,
     items |-> IF iterable.t = "list" THEN iterable.v ELSE <<iterable>>]

\* isinstance(iterable, list), and the items `for item in iterable` visits
Iterable(iterable) ==
    [ok    |-> iterable.t = "list",
     items |-> IF iterable.t = "list" THEN iterable.v ELSE <<>>]

\* type(iterable).__name__
TypeName(value) == IF value.t = "none" THEN "NoneType" ELSE value.t

\* ForLoop, lines 164-166: the iterable must be a list
ForStart(t) ==
    /\ At(t, "ForLoop")
    /\ Top(t).pc = "iterable"
    /\ LET iterable == threads[t].val
       IN  threads' =
               [threads EXCEPT ![t] =
                   IF ~Iterable(iterable).ok
                   THEN Raise(@, InterpreterError("Cannot iterate over "
                                                  \o TypeName(iterable)))
                   ELSE Replace(@, <<[Top(t) EXCEPT
                                         !.pc = "next",
                                         !.iterable = iterable,
                                         !.items = Iterable(iterable).items]>>)]
    /\ UNCHANGED <<input, state, output, spawned, result, hist>>

\* a faulty variant of NextItem: the items are taken from the end
NextItemReversed(frame) == frame.items[Len(frame.items) - frame.i]

\* the item `for item in iterable` yields after frame.i items
NextItem(frame) == frame.items[frame.i + 1]

\* ForLoop: the next item is bound to the loop variable, or the loop ends
ForNext(t) ==
    /\ At(t, "ForLoop")
    /\ Top(t).pc = "next"
    /\ LET frame == Top(t)
       IN  IF frame.i = Len(frame.items)
           THEN /\ threads' = [threads EXCEPT ![t] = Return(@, threads[t].val)]
                /\ variables' = variables
                /\ hist' = hist
           ELSE /\ threads' =
                       [threads EXCEPT ![t] =
                           Replace(@, <<[frame EXCEPT !.pc = "export",
                                                      !.i = @ + 1]>>)]
                /\ variables' = Put(variables, frame.stmt.var_name,
                                    NextItem(frame))
                /\ hist' = IF t = 1
                           THEN Written(t, frame.stmt.var_name,
                                        NextItem(frame))
                           ELSE Wrote(t, frame.stmt.var_name)
    /\ UNCHANGED <<input, functions, environment, cwd, osCwd, output,
                   spawned, result>>

\* ForLoop: the item is exported, and the body starts
ForExport(t) ==
    /\ At(t, "ForLoop")
    /\ Top(t).pc = "export"
    /\ LET frame == Top(t)
       IN  /\ environment' = Export(environment, frame.stmt.var_name,
                                    frame.items[frame.i])
           /\ threads' =
                  [threads EXCEPT ![t] =
                      Replace(@, <<[frame EXCEPT !.pc = "next"],
                                   ExecuteFrame(frame.stmt.body)>>)]
    /\ UNCHANGED <<input, variables, functions, cwd, osCwd, output, spawned,
                   result, hist>>

\* a faulty variant of Registered: the first definition of a name is kept
RegisteredOnce(funcs, stmt) ==
    IF stmt.name \in DOMAIN funcs THEN funcs
    ELSE Put(funcs, stmt.name, stmt)

\* self.functions[stmt.name] = stmt: a dict assignment, new key or not
Registered(funcs, stmt) == Put(funcs, stmt.name, stmt)

\* FunctionDef: self.functions[stmt.name] = stmt
DefineFunction(t) ==
    /\ At(t, "FunctionDef")
    /\ functions' = Registered(functions, Top(t).stmt)
    /\ threads' = [threads EXCEPT ![t] = Return(@, threads[t].val)]
    /\ UNCHANGED <<input, variables, environment, cwd, osCwd, output,
                   spawned, result, hist>>

\* OsBlock: the body runs on the host it names
OsBlockStep(t) ==
    /\ At(t, "OsBlock")
    /\ threads' =
           [threads EXCEPT ![t] =
               IF Top(t).stmt.os_name = current_os(hostOs)
               THEN Replace(@, <<ExecuteFrame(Top(t).stmt.body)>>)
               ELSE Return(@, threads[t].val)]
    /\ UNCHANGED <<input, state, output, spawned, result, hist>>

(***************************************************************************)
(* evaluate(), lines 46-123.                                               *)
(***************************************************************************)
\* evaluate(expr): a literal or a reference returns or raises at once; a
\* comparison, an array and a call start with their first part
Evaluate(t) ==
    /\ At(t, "evaluate")
    /\ LET expr == Top(t).expr
           leaf == evaluate_leaf(Reads, expr)
       IN  threads' =
               [threads EXCEPT ![t] =
                   IF IsLeaf(expr)
                   THEN IF leaf.ok THEN Return(@, leaf.val)
                        ELSE Raise(@, leaf.exc)
                   ELSE IF expr.node = "Comparison"
                   THEN Replace(@, <<[k |-> "Comparison", expr |-> expr,
                                      pc |-> "left", left |-> VNone],
                                     EvaluateFrame(expr.left)>>)
                   ELSE IF expr.node = "ArrayLiteral"
                   THEN Replace(@, <<[k |-> "ArrayLiteral", expr |-> expr,
                                      i |-> 0, elems |-> <<>>]>>)
                   ELSE Replace(@, <<CallFrame(expr)>>)]
    /\ UNCHANGED <<input, state, output, spawned, result, hist>>

\* Comparison: right = self.evaluate(expr.right)
CompareRight(t) ==
    /\ At(t, "Comparison")
    /\ Top(t).pc = "left"
    /\ threads' =
           [threads EXCEPT ![t] =
               Replace(@, <<[Top(t) EXCEPT !.pc = "right",
                                           !.left = threads[t].val],
                            EvaluateFrame(Top(t).expr.right)>>)]
    /\ UNCHANGED <<input, state, output, spawned, result, hist>>

\* Comparison: the operator applied to both values
CompareApply(t) ==
    /\ At(t, "Comparison")
    /\ Top(t).pc = "right"
    /\ LET outcome == compare(Top(t).expr.operator, Top(t).left,
                              threads[t].val)
       IN  threads' =
               [threads EXCEPT ![t] =
                   IF outcome.ok THEN Return(@, outcome.val)
                   ELSE Raise(@, outcome.exc)]
    /\ UNCHANGED <<input, state, output, spawned, result, hist>>

\* ArrayLiteral: [self.evaluate(elem) for elem in expr.elements]
ArrayNext(t) ==
    /\ At(t, "ArrayLiteral")
    /\ LET frame == Top(t)
           elems == IF frame.i = 0 THEN frame.elems
                    ELSE Append(frame.elems, threads[t].val)
       IN  threads' =
               [threads EXCEPT ![t] =
                   IF frame.i = Len(frame.expr.elements)
                   THEN Return(@, VList(elems))
                   ELSE Replace(@,
                            <<[frame EXCEPT !.i = @ + 1, !.elems = elems],
                              EvaluateFrame(
                                  frame.expr.elements[frame.i + 1])>>)]
    /\ UNCHANGED <<input, state, output, spawned, result, hist>>

(***************************************************************************)
(* execute_run(), lines 190-254.                                           *)
(***************************************************************************)
\* shlex.split(command) is empty: the command holds nothing but blanks
Blank(command) == \A i \in 1..Len(command) : Sub(command, i, i) = " "

\* what the spawn of a command can do: exit with status 0 or 1, or fail
SpawnOutcomes == {"exit 0", "exit 1", "OSError"}

\* execute_run once the command is evaluated: stmt.detach is read first,
\* and a RunCommand (parser.py, lines 36-38) has no such attribute
ExecuteRun(t) ==
    /\ At(t, "RunCommand")
    /\ LET stmt == Top(t).stmt
           command == PyStr(threads[t].val)
       IN  IF "detach" \notin DOMAIN stmt
           THEN /\ threads' =
                       [threads EXCEPT ![t] =
                           Raise(@, Exc("AttributeError",
                                        "'RunCommand' object has no "
                                        \o "attribute 'detach'"))]
                /\ UNCHANGED <<output, spawned>>
           ELSE LET echo == [stream |-> "stdout",
                             text |-> "[nlps] " \o command
                                      \o IF stmt.detach THEN " (detached)"
                                         ELSE ""]
                    process == [command |-> command, cwd |-> cwd,
                                env |-> environment,
                                detach |-> stmt.detach]
                IN  IF hostOs # "nt" /\ Blank(command)
                    THEN /\ output' = Append(output, echo)
                         /\ spawned' = spawned
                         /\ threads' = [threads EXCEPT ![t] =
                                           Return(@, threads[t].val)]
                    ELSE \E outcome \in SpawnOutcomes :
                         /\ spawned' =
                                IF outcome = "OSError" THEN spawned
                                ELSE Append(spawned, process)
                         /\ output' =
                                IF outcome = "exit 1" /\ ~stmt.detach
                                THEN output \o
                                     <<echo,
                                       [stream |-> "stdout",
                                        text |-> "[nlps] Command exited "
                                                 \o "with code 1"]>>
                                ELSE Append(output, echo)
                         /\ threads' =
                                [threads EXCEPT ![t] =
                                    IF outcome = "OSError"
                                    THEN Raise(@, InterpreterError(
                                             "Failed to execute command '"
                                             \o command \o "'"))
                                    ELSE Return(@, threads[t].val)]
    /\ UNCHANGED <<input, state, result, hist>>

(***************************************************************************)
(* call_function(), lines 278-312.                                         *)
(***************************************************************************)
\* a faulty variant of ArityMismatch: the count is not checked
NoArityCheck(call, func) == FALSE

\* line 286: the argument count differs from the parameter count
ArityMismatch(call, func) == Len(call.args) # Len(func.params)

\* the number of call_function frames on a stack
CallDepth(stack) ==
    Cardinality({n \in 1..Len(stack) : stack[n].k = "call"})

Min(a, b) == IF a < b THEN a ELSE b

\* one turn of `for param, arg in zip(func.params, call.args)`: the next
\* argument is evaluated, or the loop ends and the body starts
NextBind(frame) ==
    IF frame.i = Min(Len(frame.func.params), Len(frame.call.args))
    THEN <<[frame EXCEPT !.pc = "body"], ExecuteFrame(frame.func.body)>>
    ELSE <<[frame EXCEPT !.pc = "bind_var", !.i = @ + 1],
           EvaluateFrame(frame.call.args[frame.i + 1])>>

\* lines 280-287: the function is looked up and the argument count checked.
\* A call nested deeper than MaxDepth raises RecursionError
CallEnter(t) ==
    /\ At(t, "call")
    /\ Top(t).pc = "enter"
    /\ LET call == Top(t).call
           func == functions[call.name]
       IN  threads' =
               [threads EXCEPT ![t] =
                   IF call.name \notin DOMAIN functions
                   THEN Raise(@, InterpreterError("Undefined function: "
                                                  \o call.name))
                   ELSE IF ArityMismatch(call, func)
                   THEN Raise(@, InterpreterError(
                            "Function '" \o call.name \o "' expects "
                            \o ToString(Len(func.params))
                            \o " arguments, got "
                            \o ToString(Len(call.args))))
                   ELSE IF CallDepth(Stack(t)) > MaxDepth
                   THEN Raise(@, Exc("RecursionError",
                                     "maximum recursion depth exceeded"))
                   ELSE Replace(@, <<[Top(t) EXCEPT
                                         !.pc = "save_vars",
                                         !.func = func,
                                         !.pre = [variables |-> variables,
                                                  environment |->
                                                      environment]]>>)]
    /\ hist' = IF t = 1 THEN hist ELSE [hist EXCEPT !.called = TRUE]
    /\ UNCHANGED <<input, state, output, spawned, result>>

\* old_vars = self.variables.copy()
CallSaveVars(t) ==
    /\ At(t, "call")
    /\ Top(t).pc = "save_vars"
    /\ threads' = [threads EXCEPT ![t] =
                      Replace(@, <<[Top(t) EXCEPT !.pc = "save_env",
                                                  !.old_vars = variables]>>)]
    /\ UNCHANGED <<input, state, output, spawned, result, hist>>

\* old_env = self.environment.copy(), and the try block is entered
CallSaveEnv(t) ==
    /\ At(t, "call")
    /\ Top(t).pc = "save_env"
    /\ threads' = [threads EXCEPT ![t] =
                      Replace(@, NextBind([Top(t) EXCEPT
                                              !.old_env = environment]))]
    /\ UNCHANGED <<input, state, output, spawned, result, hist>>

\* a faulty variant of BindParam: the callee starts from a scope of its own
BindFresh(scope, param, value) == Put(EmptyMap, param, value)

\* the scope in which the body runs once param is bound: the live scope of
\* the caller with param added, for no new scope is made
BindParam(scope, param, value) == Put(scope, param, value)

\* self.variables[param] = value
CallBindVar(t) ==
    /\ At(t, "call")
    /\ Top(t).pc = "bind_var"
    /\ LET frame == Top(t)
       IN  /\ variables' = BindParam(variables, frame.func.params[frame.i],
                                     threads[t].val)
           /\ threads' =
                  [threads EXCEPT ![t] =
                      Replace(@, <<[frame EXCEPT
                                       !.pc = "bind_env",
                                       !.value = threads[t].val,
                                       !.bound = Append(@, threads[t].val)]
                                 >>)]
    /\ UNCHANGED <<input, functions, environment, cwd, osCwd, output,
                   spawned, result, hist>>

\* self.environment[param] = str(value)
CallBindEnv(t) ==
    /\ At(t, "call")
    /\ Top(t).pc = "bind_env"
    /\ LET frame == Top(t)
       IN  /\ environment' = Put(environment, frame.func.params[frame.i],
                                 PyStr(frame.value))
           /\ threads' = [threads EXCEPT ![t] = Replace(@, NextBind(frame))]
    /\ UNCHANGED <<input, variables, functions, cwd, osCwd, output, spawned,
                   result, hist>>

\* a faulty variant of RestoredVariables: the scope is not restored
KeptVariables(frame) == variables

\* the variable map the finally clause installs
RestoredVariables(frame) == frame.old_vars

\* finally: self.variables = old_vars, after the body has ended or an
\* exception has reached the try block
CallRestoreVars(t) ==
    /\ AtAlways(t, "call")
    /\ \/ Top(t).pc = "finally"
       \/ Top(t).pc = "body" /\ threads[t].exc = NoExc
    /\ variables' = RestoredVariables(Top(t))
    /\ threads' = [threads EXCEPT ![t] =
                      Replace(@, <<[Top(t) EXCEPT !.pc = "merge"]>>)]
    /\ UNCHANGED <<input, functions, environment, cwd, osCwd, output,
                   spawned, result, hist>>

\* finally: `for key, value in self.environment.items()` starts; the
\* iterator remembers the size of the dict
CallMergeStart(t) ==
    /\ AtAlways(t, "call")
    /\ Top(t).pc = "merge"
    /\ threads' = [threads EXCEPT ![t] =
                      Replace(@, <<[Top(t) EXCEPT
                                       !.pc = "merged",
                                       !.value =
                                           VInt(Cardinality(
                                               DOMAIN environment))]>>)]
    /\ UNCHANGED <<input, state, output, spawned, result, hist>>

\* a faulty variant of Merged: the live environment wins over old_env
MergedLive(old_env, env) ==
    [k \in DOMAIN old_env \cup DOMAIN env |->
        IF k \in DOMAIN env THEN env[k] ELSE old_env[k]]

\* old_env once every key of the environment it lacks is copied into it
Merged(old_env, env) ==
    [k \in DOMAIN old_env \cup DOMAIN env |->
        IF k \in DOMAIN old_env THEN old_env[k] ELSE env[k]]

\* finally: the loop over the environment ends; a dict that another thread
\* has grown meanwhile makes the iterator raise RuntimeError
CallMergeEnd(t) ==
    /\ AtAlways(t, "call")
    /\ Top(t).pc = "merged"
    /\ threads' =
           [threads EXCEPT ![t] =
               IF Cardinality(DOMAIN environment) # Top(t).value.v
               THEN Raise(@, Exc("RuntimeError",
                                 "dictionary changed size during iteration"))
               ELSE Replace(@, <<[Top(t) EXCEPT
                                     !.pc = "restore_env",
                                     !.old_env = Merged(@, environment)]>>)]
    /\ UNCHANGED <<input, state, output, spawned, result, hist>>

\* finally: self.environment = old_env; then the call returns None, or the
\* exception that entered the finally clause propagates further
CallRestoreEnv(t) ==
    /\ AtAlways(t, "call")
    /\ Top(t).pc = "restore_env"
    /\ environment' = Top(t).old_env
    /\ threads' = [threads EXCEPT ![t] =
                      IF threads[t].exc = NoExc THEN Return(@, VNone)
                      ELSE Raise(@, threads[t].exc)]
    /\ UNCHANGED <<input, variables, functions, cwd, osCwd, output, spawned,
                   result, hist>>

(***************************************************************************)
(* execute_parallel(), lines 256-276.                                      *)
(***************************************************************************)
\* the thread has finished: execute_in_thread has returned
Finished(u) == Stack(u) = <<>>

\* the error execute_in_thread returned, NoExc for None
Error(u) == threads[u].exc

\* executor.submit(execute_in_thread, stmt) for the next statement
ParallelSubmit(t) ==
    /\ At(t, "ParallelBlock")
    /\ Top(t).pc = "submit"
    /\ LET frame == Top(t)
           child == Len(threads) + 1
           next == [frame EXCEPT
                       !.i = @ + 1,
                       !.children = Append(@, child),
                       !.pc = IF frame.i + 1 = Len(frame.stmt.body)
                              THEN "wait" ELSE "submit"]
       IN  /\ threads' =
                  Append([threads EXCEPT ![t] = Replace(@, <<next>>)],
                         Thread(<<WorkerFrame(frame.stmt.body[frame.i + 1])>>,
                                t))
           /\ hist' = IF t = 1 /\ frame.i = 0
                      THEN [hist EXCEPT !.lastWrite = EmptyMap,
                                        !.writers = EmptyMap,
                                        !.called = FALSE]
                      ELSE hist
    /\ UNCHANGED <<input, state, output, spawned, result>>

\* execute_in_thread: self.execute_statement(stmt) is called
WorkerStart(t) ==
    /\ At(t, "worker")
    /\ Top(t).pc = "start"
    /\ threads' =
           [threads EXCEPT ![t] =
               Replace(@, <<[Top(t) EXCEPT !.pc = "running"]>>
                          \o Dispatch(Top(t).stmt))]
    /\ UNCHANGED <<input, state, output, spawned, result, hist>>

\* execute_in_thread: return None, or `except Exception as e: return e`
WorkerReturn(t) ==
    /\ AtAlways(t, "worker")
    /\ Top(t).pc = "running"
    /\ threads' = [threads EXCEPT ![t].stack = <<>>]
    /\ UNCHANGED <<input, state, output, spawned, result, hist>>

\* a faulty variant of Exhausted: the loop ends at the first future
ExhaustedAtFirst(frame) ==
    Cardinality(frame.collected) >= Min(1, Len(frame.children))

\* as_completed(futures) has yielded every future
Exhausted(frame) == Cardinality(frame.collected) = Len(frame.children)

\* a faulty variant of FutureResult: execute_in_thread without its except
\* clause, so that result() raises the error of the child again
FutureResultRaises(child) ==
    [raised |-> Error(child) # NoExc, error |-> Error(child)]

\* error = future.result(): result() raises what escaped the callable,
\* and nothing escapes execute_in_thread, which returns the exception it
\* caught, or None
FutureResult(child) == [raised |-> FALSE, error |-> Error(child)]

\* one turn of `for future in as_completed(futures)`: a finished child not
\* yet seen is taken, and its error, if any, appended to errors
ParallelCollect(t) ==
    /\ At(t, "ParallelBlock")
    /\ Top(t).pc = "wait"
    /\ LET frame == Top(t)
       IN  IF Exhausted(frame)
           THEN threads' = [threads EXCEPT ![t] =
                               Replace(@, <<[frame EXCEPT !.pc = "report"]>>)]
           ELSE \E n \in 1..Len(frame.children) :
                    LET child == frame.children[n]
                    IN  /\ child \notin frame.collected
                        /\ Finished(child)
                        /\ threads' =
                               [threads EXCEPT ![t] =
                                   IF FutureResult(child).raised
                                   THEN Raise(@, FutureResult(child).error)
                                   ELSE Replace(@, <<[frame EXCEPT
                                       !.collected = @ \cup {child},
                                       !.errors =
                                           IF FutureResult(child).error
                                                  # NoExc
                                           THEN Append(@,
                                                    FutureResult(child).error)
                                           ELSE @]>>)]
    /\ UNCHANGED <<input, state, output, spawned, result, hist>>

\* a faulty variant of ErrorLines: the error is printed twice
ErrorLinesTwice(err) ==
    LET line == [stream |-> "stdout",
                 text |-> "[nlps] Parallel execution error: " \o err.msg]
    IN  <<line, line>>

\* the line printed for one collected error
ErrorLines(err) ==
    <<[stream |-> "stdout",
       text |-> "[nlps] Parallel execution error: " \o err.msg]>>

\* lines 274-276: the next collected error is printed, or the block returns
ParallelReport(t) ==
    /\ At(t, "ParallelBlock")
    /\ Top(t).pc = "report"
    /\ LET frame == Top(t)
       IN  IF frame.errors = <<>>
           THEN /\ threads' = [threads EXCEPT ![t] =
                                  Return(@, threads[t].val)]
                /\ output' = output
           ELSE /\ threads' =
                       [threads EXCEPT ![t] =
                           Replace(@, <<[frame EXCEPT
                                            !.errors = Tail(@)]>>)]
                /\ output' = output \o ErrorLines(Head(frame.errors))
    /\ UNCHANGED <<input, state, spawned, result, hist>>

(***************************************************************************)
(* The interpreter.                                                        *)
(***************************************************************************)
Next ==
    \/ \E t \in DOMAIN threads : RunParse(t)
    \/ \E t \in DOMAIN threads : RunReturn(t)
    \/ \E t \in DOMAIN threads : RunExcept(t)
    \/ \E t \in DOMAIN threads : ExecuteNext(t)
    \/ \E t \in DOMAIN threads : Evaluate(t)
    \/ \E t \in DOMAIN threads : CompareRight(t)
    \/ \E t \in DOMAIN threads : CompareApply(t)
    \/ \E t \in DOMAIN threads : ArrayNext(t)
    \/ \E t \in DOMAIN threads : AssignVariable(t)
    \/ \E t \in DOMAIN threads : AssignExport(t)
    \/ \E t \in DOMAIN threads : ExecuteRun(t)
    \/ \E t \in DOMAIN threads : CdResolve(t)
    \/ \E t \in DOMAIN threads : CdSetCwd(t)
    \/ \E t \in DOMAIN threads : CdChdir(t)
    \/ \E t \in DOMAIN threads : IfBranch(t)
    \/ \E t \in DOMAIN threads : ForStart(t)
    \/ \E t \in DOMAIN threads : ForNext(t)
    \/ \E t \in DOMAIN threads : ForExport(t)
    \/ \E t \in DOMAIN threads : DefineFunction(t)
    \/ \E t \in DOMAIN threads : OsBlockStep(t)
    \/ \E t \in DOMAIN threads : CallEnter(t)
    \/ \E t \in DOMAIN threads : CallSaveVars(t)
    \/ \E t \in DOMAIN threads : CallSaveEnv(t)
    \/ \E t \in DOMAIN threads : CallBindVar(t)
    \/ \E t \in DOMAIN threads : CallBindEnv(t)
    \/ \E t \in DOMAIN threads : CallRestoreVars(t)
    \/ \E t \in DOMAIN threads : CallMergeStart(t)
    \/ \E t \in DOMAIN threads : CallMergeEnd(t)
    \/ \E t \in DOMAIN threads : CallRestoreEnv(t)
    \/ \E t \in DOMAIN threads : ParallelSubmit(t)
    \/ \E t \in DOMAIN threads : WorkerStart(t)
    \/ \E t \in DOMAIN threads : WorkerReturn(t)
    \/ \E t \in DOMAIN threads : ParallelCollect(t)
    \/ \E t \in DOMAIN threads : ParallelReport(t)

Spec == Init /\ [][Next]_vars

(***************************************************************************)
(* Properties.                                                             *)
(***************************************************************************)
StartsWith(text, prefix) == Sub(text, 1, Len(prefix)) = prefix

\* run() has returned
HasReturned == result.state = "returned"

\* the exception run() caught, NoExc when it caught none
Caught == threads[1].exc

\* the statements of the script, when it parses
Statements == parse(source).val

\* the spawn of a command failed: execute_run raised "Failed to execute"
SpawnFailed ==
    /\ Caught.type = "InterpreterError"
    /\ StartsWith(Caught.msg, "Failed to execute command")

\* C1: run() returns 0 exactly when the source parsed and every top-level
\* statement was executed with no exception reaching run(); it returns 1
\* exactly when an exception reached it, in particular when the lexer or
\* the parser raised; it returns nothing else and lets no exception out.
C1_ExitCode ==
    /\ result.state \in {"running", "returned"}
    /\ HasReturned =>
           /\ result.value \in {0, 1}
           /\ result.value = 0 <=>
                  /\ hist.parsed = "ok"
                  /\ hist.topDone = hist.nTop
                  /\ Caught = NoExc
           /\ result.value = 1 <=> Caught # NoExc
           /\ hist.parsed = "error" => result.value = 1

\* run() has returned 1 for an interpreter error raised after some
\* statement had taken effect
C1_Witness ==
    /\ result = Returned(1)
    /\ Caught.type = "InterpreterError"
    /\ hist.parsed = "ok"
    /\ variables # EmptyMap

\* a run statement, or the assignment of a number
Harmless(stmt) ==
    \/ stmt.node = "RunCommand"
    \/ stmt.node = "Assignment" /\ stmt.value.node = "NumberLiteral"

\* C2: in a script of run statements and literal assignments only, a run
\* statement is not fatal: unless a spawn fails, run() returns 0 and every
\* statement of the script has been executed.
C2_RunNotFatal ==
    ( /\ HasReturned
      /\ hist.parsed = "ok"
      /\ \E i \in 1..Len(Statements) : Statements[i].node = "RunCommand"
      /\ \A i \in 1..Len(Statements) : Harmless(Statements[i])
      /\ ~SpawnFailed )
    => /\ result.value = 0
       /\ hist.topDone = hist.nTop
       /\ \A i \in 1..Len(Statements) :
              Statements[i].node = "Assignment"
                  => Statements[i].name \in DOMAIN variables

\* the echo lines of run statements in the output
EchoLines ==
    {i \in 1..Len(output) :
        /\ output[i].stream = "stdout"
        /\ StartsWith(output[i].text, "[nlps] ")
        /\ ~StartsWith(output[i].text, "[nlps] Command exited")
        /\ ~StartsWith(output[i].text, "[nlps] Parallel execution error")}

\* C3: a script that is one run statement prints exactly one echo line,
\* and unless the spawn fails run() returns 0 with the command spawned
\* after the echo.
C3_RunEchoes ==
    ( /\ HasReturned
      /\ hist.parsed = "ok"
      /\ Len(Statements) = 1
      /\ Statements[1].node = "RunCommand" )
    => /\ Cardinality(EchoLines) = 1
       /\ ~SpawnFailed => result.value = 0

\* C4: when the lexer or the parser raises, nothing has been executed: no
\* variable, function, environment entry or working directory has changed,
\* no process has been spawned and no thread started, and run() returns 1.
C4_ParseErrorBeforeExecution ==
    hist.parsed = "error" =>
        /\ variables = EmptyMap
        /\ functions = EmptyMap
        /\ environment = HostEnvironment
        /\ cwd = StartDir
        /\ osCwd = StartDir
        /\ spawned = <<>>
        /\ Len(threads) = 1
        /\ Caught.type \in {"SyntaxError", "ParseError", "ValueError"}
        /\ HasReturned => result.value = 1

\* run() has returned 1 for a source whose first line is a valid statement
\* and whose later text does not parse
C4_Witness ==
    /\ result = Returned(1)
    /\ hist.parsed = "error"
    /\ parse(FirstLine(source)).ok
    /\ Len(parse(FirstLine(source)).val) > 0

\* the parallel frames on the stack of thread t
ParallelFrames(t) ==
    {n \in 1..Len(Stack(t)) : Stack(t)[n].k = "ParallelBlock"}

\* the threads submitted to a pool
Children == {u \in DOMAIN threads : threads[u].parent # 0}

\* the children that have returned an error
Failed == {u \in Children : Finished(u) /\ Error(u) # NoExc}

\* the block that submitted child u has not returned yet
BlockActive(u) ==
    \E n \in ParallelFrames(threads[u].parent) :
        \E c \in 1..Len(Stack(threads[u].parent)[n].children) :
            Stack(threads[u].parent)[n].children[c] = u

\* C5: a parallel block returns only after every child has finished: while
\* a child runs its block is still waiting, and a block that has left its
\* loop over the futures has submitted one child per statement, all of
\* them finished, whether or not one of them failed.
C5_Barrier ==
    /\ \A u \in Children : ~Finished(u) => BlockActive(u)
    /\ \A t \in DOMAIN threads : \A n \in ParallelFrames(t) :
           Stack(t)[n].pc = "report" =>
               /\ Len(Stack(t)[n].children) = Len(Stack(t)[n].stmt.body)
               /\ \A c \in 1..Len(Stack(t)[n].children) :
                      Finished(Stack(t)[n].children[c])

\* a block of three children has returned, one child failed and the two
\* others ran to completion
C5_Witness ==
    /\ result = Returned(0)
    /\ Cardinality(Children) = 3
    /\ Cardinality(Failed) = 1
    /\ {"x", "y", "z"} \subseteq DOMAIN variables

\* the lines of the output that report the error of a child
ReportLines ==
    {i \in 1..Len(output) :
        StartsWith(output[i].text, "[nlps] Parallel execution error: ")}

\* the errors of children not yet printed: every failed child of a block
\* still in its loop over the futures, and the errors a reporting block
\* still holds
RECURSIVE Pending(_, _)
Pending(t, n) ==
    IF n = 0 THEN 0
    ELSE Pending(t, n - 1)
         + IF Stack(t)[n].k # "ParallelBlock" THEN 0
           ELSE IF Stack(t)[n].pc = "report" THEN Len(Stack(t)[n].errors)
           ELSE Cardinality({c \in 1..Len(Stack(t)[n].children) :
                                Stack(t)[n].children[c] \in Failed})

RECURSIVE PendingAll(_)
PendingAll(t) ==
    IF t = 0 THEN 0 ELSE PendingAll(t - 1) + Pending(t, Len(Stack(t)))

\* C6: the errors of the children of a parallel block are each reported
\* once, after the block has seen every child finish: at any moment the
\* report lines printed are as many as the failed children less those
\* whose block has still to print them, every report line carries the
\* error of a failed child, and no child error reaches run().
C6_ReportedOnceAfterBarrier ==
    /\ Cardinality(ReportLines) + PendingAll(Len(threads))
           = Cardinality(Failed)
    /\ \A i \in ReportLines :
           \E u \in Failed :
               /\ ~BlockActive(u) \/ Stack(threads[u].parent) # <<>>
               /\ output[i].text
                      = "[nlps] Parallel execution error: " \o Error(u).msg
    /\ \A u \in Failed : threads[u].parent = 1 /\ HasReturned /\ Caught # NoExc
           => Caught # Error(u)

\* one child of three has failed, the two others have completed, and the
\* one error has been reported, after which the script went on
C6_Witness ==
    /\ result = Returned(0)
    /\ Cardinality(Children) = 3
    /\ Cardinality(Failed) = 1
    /\ Cardinality(ReportLines) = 1
    /\ {"x", "y", "z"} \subseteq DOMAIN variables

\* C7: when the children of a parallel block of the script have all
\* finished, every name assigned by a child is bound to the value of the
\* last assignment to it among the children.
C7_LastWriteWins ==
    ( /\ At(1, "ParallelBlock")
      /\ Len(Stack(1)) = 3
      /\ Top(1).pc = "report" )
    => \A name \in DOMAIN hist.lastWrite :
           /\ name \in DOMAIN variables
           /\ variables[name] = hist.lastWrite[name]

\* the step by which a call of the thread of run() returns or lets its
\* exception out
CallReturns == AtAlways(1, "call") /\ Top(1).pc = "restore_env"

\* C8: when a call returns in the thread of run(), the variables are those
\* of the moment the call was entered, every environment key of that
\* moment has the value it had then, and every key the call introduced
\* keeps the value it had when the call ended.
C8_ScopeRestored ==
    [][CallReturns =>
          /\ variables' = Top(1).pre.variables
          /\ DOMAIN environment' = DOMAIN environment
          /\ \A key \in DOMAIN environment :
                 environment'[key] =
                     IF key \in DOMAIN Top(1).pre.environment
                     THEN Top(1).pre.environment[key]
                     ELSE environment[key]]_vars

\* the script has ended after a call that rebound a, bound its parameters
\* and assigned z: a has its old value, z is no variable, and z stays in
\* the environment
C8_Witness ==
    /\ result = Returned(0)
    /\ "f" \in DOMAIN functions
    /\ "z" \in DOMAIN environment
    /\ "z" \notin DOMAIN variables
    /\ "a" \in DOMAIN variables
    /\ variables["a"] = VInt(1)
    /\ environment["a"] = "1"

\* the value of a literal or reference argument in the variables of the
\* moment the call was entered
CallerValue(frame, i) ==
    evaluate_leaf([Reads EXCEPT !.variables = frame.pre.variables],
                  frame.call.args[i])

\* C9: every argument of a call is bound with the value it has in the
\* caller's variables as they were just before the call.
C9_ArgumentsInCallerScope ==
    \A n \in 1..Len(Stack(1)) :
        Stack(1)[n].k = "call" =>
            \A i \in 1..Len(Stack(1)[n].bound) :
                IsLeaf(Stack(1)[n].call.args[i]) =>
                    CallerValue(Stack(1)[n], i) = Val(Stack(1)[n].bound[i])

\* the call frames of thread t past the lookup and the count check
Entered(t) ==
    {n \in 1..Len(Stack(t)) :
        Stack(t)[n].k = "call" /\ Stack(t)[n].pc # "enter"}

\* thread t is about to call a defined function with the wrong number of
\* arguments
Mismatched(t) ==
    /\ At(t, "call")
    /\ Top(t).pc = "enter"
    /\ Top(t).call.name \in DOMAIN functions
    /\ Len(Top(t).call.args)
           # Len(functions[Top(t).call.name].params)

\* C10: a call with the wrong number of arguments raises InterpreterError
\* before anything else: no call gets past the count check with a count
\* that differs, and the step of a mismatched call raises and leaves the
\* variables and the environment as they are.
C10_ArityChecked ==
    /\ [](\A t \in DOMAIN threads : \A n \in Entered(t) :
              Len(Stack(t)[n].call.args) = Len(Stack(t)[n].func.params))
    /\ [][\A t \in DOMAIN threads :
              Mismatched(t) /\ threads'[t] # threads[t] =>
                  /\ threads'[t].exc.type = "InterpreterError"
                  /\ StartsWith(threads'[t].exc.msg, "Function '")
                  /\ variables' = variables
                  /\ environment' = environment]_vars

\* run() has returned 1 for a call with one argument of a function of no
\* parameter; the assignment before the call is all that took effect
C10_Witness ==
    /\ result = Returned(1)
    /\ Caught = InterpreterError("Function 'g' expects 0 arguments, got 1")
    /\ DOMAIN variables = {"x"}
    /\ "q" \notin DOMAIN environment

\* the for loops of thread t that have taken their iterable
Looping(t) ==
    {n \in 1..Len(Stack(t)) :
        Stack(t)[n].k = "ForLoop" /\ Stack(t)[n].pc # "iterable"}

\* thread t is about to start a loop over a value that is no list
NotAList(t) ==
    /\ At(t, "ForLoop")
    /\ Top(t).pc = "iterable"
    /\ threads[t].val.t # "list"

\* C11: a for loop over a value that is no list raises InterpreterError:
\* no loop gets past the type check with such a value, and the step of the
\* check raises, drops the loop with its body, and leaves the variables and
\* the environment as they are.
C11_NonListIteration ==
    /\ [](\A t \in DOMAIN threads : \A n \in Looping(t) :
              Stack(t)[n].iterable.t = "list")
    /\ [][\A t \in DOMAIN threads :
              NotAList(t) /\ threads'[t] # threads[t] =>
                  /\ threads'[t].exc.type = "InterpreterError"
                  /\ StartsWith(threads'[t].exc.msg, "Cannot iterate over ")
                  /\ Len(threads'[t].stack) < Len(Stack(t))
                  /\ variables' = variables
                  /\ environment' = environment]_vars

\* run() has returned 1 for a loop over a string: neither the loop
\* variable nor the variable of the body is bound or exported
C11_Witness ==
    /\ result = Returned(1)
    /\ Caught = InterpreterError("Cannot iterate over str")
    /\ variables = EmptyMap
    /\ environment = HostEnvironment

\* the family of the host the interpreter runs on
HostFamily == IF hostOs = "nt" THEN "windows" ELSE "unix"

\* thread t is about to execute an on-block that names another family
OtherHost(t) ==
    /\ At(t, "OsBlock")
    /\ Top(t).stmt.os_name # HostFamily

\* C12: the step that executes an on-block naming another host family
\* ends the statement without starting its body, and changes no variable,
\* function, environment entry or working directory, prints nothing and
\* spawns nothing.
C12_OtherHostSkipped ==
    [][\A t \in DOMAIN threads :
           OtherHost(t) /\ threads'[t] # threads[t] =>
               /\ threads'[t].stack = Front(Stack(t))
               /\ threads'[t].exc = NoExc
               /\ <<variables, functions, environment, cwd, osCwd>>'
                      = <<variables, functions, environment, cwd, osCwd>>
               /\ output' = output
               /\ spawned' = spawned]_vars

\* on a posix host a script of a windows block and a unix block has ended:
\* the assignment, the cd and the definition of the unix block took
\* effect, those of the windows block did not
C12_Witness ==
    /\ result = Returned(0)
    /\ hostOs = "posix"
    /\ DOMAIN variables = {"u"}
    /\ DOMAIN functions = {"j"}
    /\ DOMAIN environment = DOMAIN HostEnvironment \cup {"u"}
    /\ cwd = "/"
    /\ osCwd = "/"
    /\ output = <<>>

\* the positions tried: 0, every position of an argument, and one more
Positions == 0..(MaxArgs + 1)

\* what position n stands for: the n-th argument, the empty string when
\* there is none
NthArgument(n) == IF 1 <= n /\ n <= Len(args) THEN args[n] ELSE ""

\* C13: positional argument access never raises: for every position n,
\* ArgRef(n) evaluates to the n-th argument, to the empty string when n is
\* 0 or beyond the arguments, and the string "${n}" evaluates to the same
\* text.
C13_PositionalAccess ==
    \A n \in Positions :
        /\ evaluate_leaf(Reads, ArgRef(ArgIndex(ToString(n))))
               = Val(VStr(NthArgument(n)))
        /\ evaluate_leaf(Reads,
                         create_string_literal("${" \o ToString(n) \o "}"))
               = Val(VStr(NthArgument(n)))

\* with one argument v, a script has read $0 and $1 and substituted ${0},
\* ${1} and ${2}: x is empty, y is v, and z holds v once between the
\* brackets
C13_Witness ==
    /\ result = Returned(0)
    /\ args = <<"v">>
    /\ {"x", "y", "z"} \subseteq DOMAIN variables
    /\ variables["x"] = VStr("")
    /\ variables["y"] = VStr("v")
    /\ StartsWith(variables["z"].v, "[v]v-")

\* string literals of two and three spans, with text before, between and
\* after them
Templates ==
    {"${x}${y}", "a${1}b${x}c${2}", "${@}${#}${nope}", "${y}-${1}${1}",
     "${HOME}/${i}.${OS}", "${a}${b}${c}"}

\* the text of every string literal a thread is about to evaluate
UnderEvaluation ==
    {Top(t).expr.value : t \in {u \in DOMAIN threads :
                                   /\ At(u, "evaluate")
                                   /\ Top(u).expr.node = "StringLiteral"}}

\* one pass from the first span to the last: span i is replaced at its
\* recorded offsets moved by shift, the growth of the text so far
RECURSIVE LeftToRight(_, _, _, _, _)
LeftToRight(st, text, spans, i, shift) ==
    LET replaced(new) ==
            LeftToRight(st,
                        Sub(text, 1, spans[i].start + shift) \o new
                            \o Sub(text, spans[i].end + shift + 1, Len(text)),
                        spans, i + 1,
                        shift + Len(new) - (spans[i].end - spans[i].start))
    IN  IF i > Len(spans) THEN text
        ELSE replaced(Replacement(st, spans[i].name).val.v)

\* C14: for every string literal and the replacement texts of the current
\* state, substituting the spans from the last to the first gives the
\* string that one pass from the first to the last gives when it moves the
\* offsets by the growth of the text.
C14_DescendingEqualsLeftToRight ==
    \A text \in Templates \cup UnderEvaluation :
        LET literal == create_string_literal(text)
            descending == Interpolate(Reads, text, literal.interpolations,
                                      Len(literal.interpolations))
        IN  descending.ok =>
                descending.val.v
                    = LeftToRight(Reads, text, literal.interpolations, 1, 0)

\* a literal of eight spans has been evaluated with one argument: texts
\* shorter than their span (the empty string, v), a longer one (the home
\* directory) and an unresolved span all stand where they belong
C14_Witness ==
    /\ result = Returned(0)
    /\ args = <<"v">>
    /\ "z" \in DOMAIN variables
    /\ variables["z"] = VStr("[v]v-/home/u${nope}v1")
    /\ Len(create_string_literal(
               "${0}[${1}]${2}${y}-${HOME}${nope}${@}${#}").interpolations) = 8

\* the names of the spans of the literals under evaluation, and one name
\* of every kind the resolution order tells apart
SpanNames ==
    {"@", "#", "0", "1", "2", "x", "y", "HOME", "CWD", "NLPM_HOME",
     "SCRIPT_DIR", "OS", "nope"}
    \cup UNION {{create_string_literal(text).interpolations[i].name :
                    i \in 1..Len(create_string_literal(text).interpolations)} :
                text \in UnderEvaluation}

\* the text the resolution order gives a span name: the arguments joined,
\* their count, the numbered argument, the bound variable, the special
\* variable, or the span left as it is
Resolved(name) ==
    IF name = "@" THEN Join(args, " ")
    ELSE IF name = "#" THEN ToString(Len(args))
    ELSE IF IntOk(name) THEN NthArgument(ParseInt(name))
    ELSE IF name \in DOMAIN variables THEN PyStr(variables[name])
    ELSE IF name = "CWD" THEN cwd
    ELSE IF name = "HOME" THEN HomeDir
    ELSE IF name = "NLPM_HOME" THEN HomeDir \o "/.nlpm"
    ELSE IF name = "SCRIPT_DIR" THEN ScriptDir
    ELSE IF name = "OS" THEN HostFamily
    ELSE "${" \o name \o "}"

\* C15: every span name resolves in the fixed order and no span raises;
\* a string literal evaluates without an exception, while a reference to
\* an unbound variable raises InterpreterError.
C15_ResolutionOrder ==
    /\ \A name \in SpanNames :
           Replacement(Reads, name) = Val(VStr(Resolved(name)))
    /\ \A text \in UnderEvaluation :
           evaluate_leaf(Reads, create_string_literal(text)).ok
    /\ \A name \in {"x", "u", "HOME"} \ DOMAIN variables :
           /\ ~evaluate_leaf(Reads, VariableRef(name)).ok
           /\ evaluate_leaf(Reads, VariableRef(name)).exc
                  = InterpreterError("Undefined variable: " \o name)

\* a definition with two parameters, one bare and one with a dollar sign,
\* and a call with two arguments, both written with commas
CommaScript == "fn f(a, $b) {\n}\nf(1, 2)"

\* the statements the script stands for
CommaStatements ==
    <<FunctionDef("f", <<"a", "b">>, <<>>),
      FunctionCall("f", <<NumberLiteral(VInt(1)), NumberLiteral(VInt(2))>>)>>

\* C16: a definition and a call written with commas parse, with no parse
\* error, to the FunctionDef of the bare parameter names and the
\* FunctionCall of the argument expressions, in order.
C16_CommaSeparated ==
    source = CommaScript =>
        /\ hist.parsed # "error"
        /\ hist.parsed = "ok" => Statements = CommaStatements
        /\ HasReturned => result.value = 0

\* run() has returned after an interpreter error in a script that started
\* no parallel child
Aborted ==
    /\ HasReturned
    /\ Len(threads) = 1
    /\ Caught.type = "InterpreterError"

\* C17 as claimed: after an interpreter error outside a parallel block
\* run() returns 1 with statements left unexecuted, and every name bound
\* before the error, in a function body too, still has the value last
\* bound to it, in the variables and in the environment.
C17_NoRollback ==
    Aborted =>
        /\ result.value = 1
        /\ \A name \in DOMAIN hist.assigned :
               /\ name \in DOMAIN variables
               /\ variables[name] = hist.assigned[name]
               /\ name \in DOMAIN environment
               /\ environment[name] = PyStr(hist.assigned[name])

\* C17, amended: after an interpreter error outside a parallel block run()
\* returns 1; from the error on no statement starts and no function,
\* working directory or spawned process changes; the variables are the
\* bindings made outside every function body, mirrored in the environment,
\* and a name bound only inside a function body is no variable but stays
\* in the environment.
C17_AbortKeepsEffects ==
    /\ [](Aborted =>
              /\ result.value = 1
              /\ variables = hist.top
              /\ \A name \in DOMAIN variables :
                     /\ name \in DOMAIN environment
                     /\ environment[name] = PyStr(variables[name])
              /\ \A name \in DOMAIN hist.assigned :
                     name \in DOMAIN environment)
    /\ [][( /\ Len(threads) = 1
            /\ threads[1].exc.type = "InterpreterError"
                   \/ threads'[1].exc.type = "InterpreterError" )
          => /\ functions' = functions
             /\ cwd' = cwd
             /\ osCwd' = osCwd
             /\ spawned' = spawned
             /\ hist'.topDone = hist.topDone
             /\ hist'.assigned = hist.assigned]_vars

\* a function body has assigned x and q, changed directory and defined g
\* before it called an undefined function: x has its value of before the
\* call, q is no variable but is exported, the directory and g remain, and
\* the statement after the call has not run
C17_Witness ==
    /\ result = Returned(1)
    /\ Caught = InterpreterError("Undefined function: nofn")
    /\ variables = [name \in {"x"} |-> VInt(1)]
    /\ hist.assigned = [name \in {"x", "q"} |->
                           IF name = "x" THEN VInt(2) ELSE VInt(3)]
    /\ environment["x"] = "1"
    /\ environment["q"] = "3"
    /\ cwd = "/w/sub"
    /\ osCwd = "/w/sub"
    /\ DOMAIN functions = {"f", "g"}
    /\ hist.topDone < hist.nTop

(***************************************************************************)
(* The package registry (registry.py over the schema of db.py) and the     *)
(* commands that write it.  A table is the sequence of its rows, so that   *)
(* the AUTOINCREMENT id of a row is its index; package_files, whose ids    *)
(* nothing reads, is the set of its rows.                                  *)
(***************************************************************************)
LibNames == {"liba", "libb"}
VersionTexts == {"1.0"}
SourceDirs == {"src", "gone"}
ExistingDirs == {"src"}

\* the file maps the walk over a source directory can produce
FileMaps ==
    { "a.py" :> "h1",
      "a.py" :> "h2",
      ("a.py" :> "h1") @@ ("b.py" :> "h2") }

\* utils.load_yaml(config.LIB_CONFIG_FILE): None when the file is missing
NoConfig == [name |-> "", version |-> "", source_dir |-> ""]
Configs == [name : LibNames, version : VersionTexts, source_dir : SourceDirs]

\* SELECT id FROM libraries WHERE name = ?    (0: no row)
LibraryId(reg, name) ==
    IF \E i \in DOMAIN reg.libraries : reg.libraries[i].name = name
    THEN CHOOSE i \in DOMAIN reg.libraries : reg.libraries[i].name = name
    ELSE 0

\* the row of versions that UNIQUE(library_id, version) allows at most once
VersionId(reg, lib_id, version) ==
    IF \E i \in DOMAIN reg.versions :
           reg.versions[i] = [library_id |-> lib_id, version |-> version]
    THEN CHOOSE i \in DOMAIN reg.versions :
           reg.versions[i] = [library_id |-> lib_id, version |-> version]
    ELSE 0

library_exists(reg, name) == LibraryId(reg, name) # 0

\* registry.register_library: UPDATE the metadata of an existing row,
\* INSERT a new row otherwise
register_library(reg, name, description) ==
    IF library_exists(reg, name)
    THEN [reg EXCEPT !.libraries[LibraryId(reg, name)].description =
                         description]
    ELSE [reg EXCEPT !.libraries =
              Append(@, [name |-> name, description |-> description])]

\* registry.get_package_files: the dict path -> hash, None without rows
get_package_files(reg, name, version) ==
    LET rows(version_id) ==
            {f \in reg.package_files : f.version_id = version_id}
        dict(found) ==
            IF found = {} THEN VNone
            ELSE [t |-> "dict",
                  v |-> [p \in {f.file_path : f \in found} |->
                            (CHOOSE f \in found : f.file_path = p).file_hash]]
    IN dict(IF VersionId(reg, LibraryId(reg, name), version) = 0 THEN {}
            ELSE rows(VersionId(reg, LibraryId(reg, name), version)))

\* registry.publish_version: one transaction, committed whole or rolled
\* back whole; error is the text of the ValueError, "" when it returns
publish_version(reg, name, version, file_map) ==
    IF LibraryId(reg, name) = 0
    THEN [registry |-> reg,
          error |-> "Library '" \o name \o "' not registered."]
    ELSE IF VersionId(reg, LibraryId(reg, name), version) # 0
    THEN \* sqlite3.IntegrityError on the INSERT INTO versions: rollback
         [registry |-> reg,
          error |-> "Version " \o version \o " already exists for "
                        \o name \o "."]
    ELSE [registry |->
              [reg EXCEPT
                  !.versions =
                      Append(@, [library_id |-> LibraryId(reg, name),
                                 version |-> version]),
                  !.package_files =
                      @ \cup {[version_id |-> Len(reg.versions) + 1,
                               file_path |-> p,
                               file_hash |-> file_map[p]] :
                                  p \in DOMAIN file_map}],
          error |-> ""]

\* the command line of the last command, what it hashed, and how it ended
Command(command, conf, force, file_map, exit, log) ==
    [command |-> command, conf |-> conf, force |-> force,
     file_map |-> file_map, exit |-> exit, log |-> log]

interpreter == <<source, args, hostOs, variables, functions, environment,
                 cwd, osCwd, threads, output, spawned, result, hist, lexer,
                 scripts>>

\* nlpm register lib: producer.register
register(conf, description) ==
    /\ IF conf = NoConfig
       THEN /\ cli' = Command("register", conf, FALSE, EmptyMap, 1,
                              "No nlpm.lib.yaml found.")
            /\ UNCHANGED registry
       ELSE /\ registry' = register_library(registry, conf.name, description)
            /\ cli' = Command("register", conf, FALSE, EmptyMap, 0,
                              "Registered/Updated '" \o conf.name \o "'")
    /\ UNCHANGED interpreter

\* nlpm publish [--force]: producer.publish.  tree is the file map that
\* hashing the source directory gives; args.force is parsed and never read
publish(conf, tree, force) ==
    /\ IF conf = NoConfig
       THEN /\ cli' = Command("publish", conf, force, EmptyMap, 1,
                              "No nlpm.lib.yaml found.")
            /\ UNCHANGED registry
       ELSE IF ~library_exists(registry, conf.name)
       THEN /\ cli' = Command("publish", conf, force, EmptyMap, 1,
                              "Library '" \o conf.name
                                  \o "' is not registered. "
                                  \o "Run 'nlpm register' first.")
            /\ UNCHANGED registry
       ELSE IF conf.source_dir \notin ExistingDirs
       THEN /\ cli' = Command("publish", conf, force, EmptyMap, 1,
                              "Source directory '" \o conf.source_dir
                                  \o "' does not exist.")
            /\ UNCHANGED registry
       ELSE LET done(r) ==
                    /\ registry' = r.registry
                    /\ cli' = IF r.error # ""
                              THEN Command("publish", conf, force, tree, 1,
                                           r.error)
                              ELSE Command("publish", conf, force, tree, 0,
                                           "Published '" \o conf.name
                                               \o "' v" \o conf.version)
            IN done(publish_version(registry, conf.name, conf.version,
                                    tree))
    /\ UNCHANGED interpreter

Descriptions == {"", "d"}

RegistryInit ==
    /\ source = "x = 1"
    /\ args = <<>>
    /\ hostOs = "posix"
    /\ variables = EmptyMap
    /\ functions = EmptyMap
    /\ environment = HostEnvironment
    /\ cwd = StartDir
    /\ osCwd = StartDir
    /\ threads = <<Thread(<<RunFrame>>, 0)>>
    /\ output = <<>>
    /\ spawned = <<>>
    /\ result = Running
    /\ hist = [parsed |-> "no", nTop |-> 0, topDone |-> 0,
               lastWrite |-> EmptyMap, assigned |-> EmptyMap,
               top |-> EmptyMap, writers |-> EmptyMap, called |-> FALSE]
    /\ registry = EmptyRegistry
    /\ cli = NoCommand
    /\ lexer = LexInit
    /\ scripts = {}

RegistryNext ==
    \/ \E conf \in Configs \cup {NoConfig}, description \in Descriptions :
           register(conf, description)
    \/ \E conf \in Configs \cup {NoConfig}, tree \in FileMaps,
          force \in BOOLEAN :
           publish(conf, tree, force)

RegistrySpec == RegistryInit /\ [][RegistryNext]_vars

\* the command published a version that the registry already held
Republished ==
    /\ cli'.command = "publish"
    /\ cli'.conf # NoConfig
    /\ cli'.conf.source_dir \in ExistingDirs
    /\ VersionId(registry, LibraryId(registry, cli'.conf.name),
                 cli'.conf.version) # 0

\* C18: publishing a version that the registry already holds fails and
\* leaves the versions and the package files unchanged, unless --force is
\* given: then the command succeeds and the version maps to the file map
\* just published
C18_PublishExisting ==
    [][Republished =>
          IF cli'.force
          THEN /\ cli'.exit = 0
               /\ get_package_files(registry', cli'.conf.name,
                                    cli'.conf.version)
                      = [t |-> "dict", v |-> cli'.file_map]
          ELSE /\ cli'.exit = 1
               /\ registry'.versions = registry.versions
               /\ registry'.package_files = registry.package_files]_vars

\* without --force the claim is what the code does
C18_WithoutForce ==
    [][Republished /\ ~cli'.force =>
          /\ cli'.exit = 1
          /\ registry'.versions = registry.versions
          /\ registry'.package_files = registry.package_files]_vars

\* no thread but the caller of run() is running
Alone == \A u \in DOMAIN threads : u # 1 => Stack(u) = <<>>

\* the calls of thread 1 whose body is about to run its first statement
BodyStarts ==
    {n \in 1..Len(Stack(1)) :
        /\ Stack(1)[n].k = "call"
        /\ Stack(1)[n].pc = "body"
        /\ Len(Stack(1)) = n + 1
        /\ Stack(1)[n + 1].k = "execute"
        /\ Stack(1)[n + 1].i = 0}

Params(func) == {func.params[i] : i \in 1..Len(func.params)}

\* the variables are the caller's variables of the moment of the call with
\* the parameters of frame bound over them
CallerScope(frame) ==
    /\ DOMAIN variables
           = DOMAIN frame.pre.variables \cup Params(frame.func)
    /\ \A name \in DOMAIN frame.pre.variables \ Params(frame.func) :
           variables[name] = frame.pre.variables[name]
    /\ \A i \in 1..Len(frame.func.params) :
           (\A j \in (i + 1)..Len(frame.func.params) :
                frame.func.params[j] # frame.func.params[i])
               => variables[frame.func.params[i]] = frame.bound[i]

\* thread 1 is inside a function body and about to read a bound variable
ReadsInBody ==
    /\ Alone
    /\ At(1, "evaluate")
    /\ InCall(Stack(1))
    /\ Top(1).expr.node = "VariableRef"
    /\ Top(1).expr.name \in DOMAIN variables

\* thread 1 is inside a function body and about to bind an assignment
AssignsInBody ==
    /\ Alone
    /\ At(1, "Assignment")
    /\ Top(1).pc = "bind"
    /\ InCall(Stack(1))

\* C19: calls are dynamically scoped.  When the body of a callee starts,
\* the variables are the caller's live variables with the parameters bound
\* over them; a reference inside a body yields the value the live
\* variables hold; an assignment inside a body goes into the live
\* variables, where the rest of the body and the functions it calls read
\* it.  So in f -> g -> h the body of g reads the parameter of f and the
\* assignment of f, and h reads the assignment of g.
C19_DynamicScope ==
    /\ [](Alone => \A n \in BodyStarts : CallerScope(Stack(1)[n]))
    /\ [](source = NestedCalls /\ result = Returned(0) =>
              /\ environment["r"] = "1"
              /\ environment["s"] = "2"
              /\ environment["u"] = "5"
              /\ variables = Put(EmptyMap, "w", VInt(0)))
    /\ [][ReadsInBody /\ threads' # threads =>
              threads'[1].val = variables[Top(1).expr.name]]_vars
    /\ [][AssignsInBody /\ threads' # threads =>
              variables' = Put(variables, Top(1).stmt.name,
                               threads[1].val)]_vars

\* the body of h starts two calls below f with the parameter of f and the
\* assignment of g in its variables
C19_Witness ==
    /\ source = NestedCalls
    /\ Alone
    /\ CallDepth(Stack(1)) = 3
    /\ Len(Stack(1)) - 1 \in BodyStarts
    /\ "p" \in DOMAIN variables
    /\ variables["p"] = VInt(1)
    /\ variables["w"] = VInt(5)

\* every variable is in the environment with its stringified value
Mirrored ==
    \A name \in DOMAIN variables :
        /\ name \in DOMAIN environment
        /\ environment[name] = PyStr(variables[name])

\* thread 1 is between two statements of a block, or run() has ended
BetweenStatements == result # Running \/ At(1, "execute")

\* C20: as long as no parallel block has started a thread, and so all
\* through a script without a parallel block, the environment mirrors the
\* variables after every executed statement: every bound variable is in
\* the environment with the string of its value.
C20_EnvironmentMirrors ==
    Len(threads) = 1 /\ BetweenStatements => Mirrored

\* g has rebound w inside two nested calls and is about to call h: the
\* environment holds the new value of w and the parameter of f
C20_Witness ==
    /\ source = NestedCalls
    /\ Len(threads) = 1
    /\ At(1, "execute")
    /\ CallDepth(Stack(1)) = 2
    /\ Top(1).i = 3
    /\ variables["w"] = VInt(5)
    /\ environment["w"] = "5"
    /\ environment["p"] = "1"
    /\ Mirrored

\* thread 1 is between two statements of the script itself
BetweenTopLevel == At(1, "execute") /\ Len(Stack(1)) = 2

\* C21: whenever the interpreter is between two top-level statements, the
\* logical cwd is the working directory of the OS process, whatever cd
\* statements have succeeded or failed before, those of the children of a
\* parallel block included.
C21_CwdInSync == BetweenTopLevel => cwd = osCwd

\* the same as long as no os.chdir has been refused
C21_InSyncWhenEntered ==
    BetweenTopLevel /\ cwd \in Searchable => cwd = osCwd

\* thread 1, the only thread, is about to resolve the path of a cd
Resolving ==
    /\ Len(threads) = 1
    /\ At(1, "CdCommand")
    /\ Top(1).pc = "resolve"
    /\ threads[1].val.t = "str"

\* the path of that cd, resolved against the logical cwd
Target == ResolvePath(cwd, threads[1].val.v)

\* thread 1, the only thread, is about to end a cd with os.chdir
Entering ==
    /\ Len(threads) = 1
    /\ At(1, "CdCommand")
    /\ Top(1).pc = "chdir"

\* C22: a cd resolves a relative path against the logical cwd; when the
\* resolved path is no directory the statement raises InterpreterError and
\* neither the logical cwd nor the working directory of the process
\* changes; otherwise both become the resolved path.
C22_CdResolution ==
    /\ [][Resolving /\ threads' # threads =>
              IF Target \in Directories
              THEN /\ threads'[1].exc = NoExc
                   /\ Last(threads'[1].stack).new_path = Target
              ELSE /\ threads'[1].exc.type = "InterpreterError"
                   /\ cwd' = cwd
                   /\ osCwd' = osCwd]_vars
    /\ [][Entering /\ threads' # threads =>
              /\ cwd' = Top(1).new_path
              /\ osCwd' = Top(1).new_path]_vars

\* the same when the process may enter the resolved directory
C22_WhenEntered ==
    /\ [][Resolving /\ threads' # threads =>
              IF Target \in Directories
              THEN /\ threads'[1].exc = NoExc
                   /\ Last(threads'[1].stack).new_path = Target
              ELSE /\ threads'[1].exc.type = "InterpreterError"
                   /\ cwd' = cwd
                   /\ osCwd' = osCwd]_vars
    /\ [][Entering /\ threads' # threads /\ Top(1).new_path \in Searchable =>
              /\ cwd' = Top(1).new_path
              /\ osCwd' = Top(1).new_path]_vars

\* thread 1, with no other thread running, is at a for loop at step pc
AtFor(pc) == Alone /\ At(1, "ForLoop") /\ Top(1).pc = pc

\* the elements of the array the loop of thread 1 iterates over
Elements == Top(1).iterable.v

LoopVar == Top(1).stmt.var_name

\* the loop of thread 1 has bound all its elements and ends
LoopEnds == AtFor("next") /\ Top(1).i = Len(Elements)

\* the steps of a for loop but the state in which it ends: the iterable is
\* taken once and is kept; the elements are bound in order, one more each
\* time; the body starts with the loop variable and its environment entry
\* bound to the element of its turn; the end of the loop changes nothing
ForSteps ==
    /\ AtFor("iterable") /\ threads' # threads =>
           /\ variables' = variables
           /\ environment' = environment
           /\ threads[1].val.t = "list" =>
                  /\ Last(threads'[1].stack).iterable = threads[1].val
                  /\ Last(threads'[1].stack).i = 0
    /\ AtFor("next") /\ ~LoopEnds /\ threads' # threads =>
           /\ Last(threads'[1].stack).iterable = Top(1).iterable
           /\ Last(threads'[1].stack).i = Top(1).i + 1
           /\ variables' = Put(variables, LoopVar, Elements[Top(1).i + 1])
    /\ AtFor("export") /\ threads' # threads =>
           /\ variables[LoopVar] = Elements[Top(1).i]
           /\ environment' = Put(environment, LoopVar,
                                 PyStr(Elements[Top(1).i]))
           /\ variables' = variables
           /\ Len(threads'[1].stack) = Len(Stack(1)) + 1
           /\ Last(threads'[1].stack) = ExecuteFrame(Top(1).stmt.body)
           /\ threads'[1].stack[Len(Stack(1))].iterable = Top(1).iterable
           /\ threads'[1].stack[Len(Stack(1))].i = Top(1).i
    /\ LoopEnds /\ threads' # threads =>
           /\ Len(threads'[1].stack) = Len(Stack(1)) - 1
           /\ threads'[1].exc = NoExc
           /\ variables' = variables
           /\ environment' = environment

\* the loop of Accumulate has run: the second iteration read the a of the
\* first, and a, b and the loop variable keep their last values
Accumulated ==
    source = Accumulate /\ result = Returned(0) =>
        /\ variables["b"] = VInt(1)
        /\ variables["a"] = VInt(2)
        /\ variables["c"] = VInt(2)
        /\ variables["i"] = VInt(2)
        /\ environment["i"] = "2"

\* C23: a for loop over an array of n elements evaluates the iterable
\* once and runs the body n times in element order, the loop variable and
\* its environment entry rebound to the i-th element before the i-th run;
\* the body runs in the outer scope; for n = 0 nothing is bound; and when
\* the loop ends the loop variable is bound to the last element.
C23_ForLoop ==
    /\ []Accumulated
    /\ [][ForSteps]_vars
    /\ [](LoopEnds /\ Len(Elements) > 0 =>
              variables[LoopVar] = Elements[Len(Elements)])

\* C23, amended: the same, but when the loop ends the loop variable is
\* bound to the last element or to the value the body assigned to it
\* after that element was bound.
C23_ForLoopOrBodyValue ==
    /\ []Accumulated
    /\ [][ForSteps]_vars
    /\ [](LoopEnds /\ Len(Elements) > 0 =>
              \/ variables[LoopVar] = Elements[Len(Elements)]
              \/ variables[LoopVar] = hist.assigned[LoopVar])

\* the loop of Accumulate ends after two runs of its body
C23_Witness ==
    /\ source = Accumulate
    /\ LoopEnds
    /\ Top(1).i = 2
    /\ variables["b"] = VInt(1)
    /\ variables["i"] = VInt(2)

\* the block thread t is to execute for the value of the condition: an
\* else-block that is missing is an empty block
Chosen(t) ==
    IF Truthy(threads[t].val) THEN Top(t).stmt.then_block
    ELSE IF Len(Top(t).stmt.else_block) > 0 THEN Top(t).stmt.else_block[1]
    ELSE <<>>

\* the stack of thread t below its innermost frame
Below(t) == SubSeq(Stack(t), 1, Len(Stack(t)) - 1)

\* C24: an if statement evaluates its condition once and then executes
\* exactly one block: the then-block when the condition is truthy, the
\* else-block otherwise (nothing when there is no else-block), never both.
C24_OneBranch ==
    /\ [](source = Branches /\ result = Returned(0) =>
              variables = Put(Put(EmptyMap, "y", VInt(1)), "t", VInt(1)))
    /\ [][\A t \in DOMAIN threads :
              At(t, "IfStatement") /\ threads'[t] # threads[t] =>
                  /\ \/ threads'[t].stack
                            = Below(t) \o <<ExecuteFrame(Chosen(t))>>
                     \/ /\ Chosen(t) = <<>>
                        /\ threads'[t].stack = Below(t)
                  /\ threads'[t].exc = NoExc
                  /\ variables' = variables
                  /\ environment' = environment
                  /\ functions' = functions
                  /\ cwd' = cwd]_vars

\* the script of three if statements has ended: the else-block ran for the
\* zero float, nothing for the empty string, the then-block for the list
C24_Witness ==
    /\ source = Branches
    /\ result = Returned(0)
    /\ "y" \in DOMAIN variables
    /\ "t" \in DOMAIN variables
    /\ "x" \notin DOMAIN variables
    /\ "z" \notin DOMAIN variables

\* thread t is about to call a defined function with matching arguments
\* within the recursion limit
Calls(t) ==
    /\ At(t, "call")
    /\ Top(t).pc = "enter"
    /\ Top(t).call.name \in DOMAIN functions
    /\ ~ArityMismatch(Top(t).call, functions[Top(t).call.name])
    /\ CallDepth(Stack(t)) <= MaxDepth

\* the call frames of thread t whose body has been started
InBody(t) ==
    {n \in 1..(Len(Stack(t)) - 1) :
        Stack(t)[n].k = "call" /\ Stack(t)[n].pc = "body"}

\* C25: executing a function definition changes functions[name] and
\* nothing else: no statement of the body starts, no variable, environment
\* entry or cwd changes, and nothing is raised, for a new name or a name
\* defined before.  A call runs the body of the definition executed last
\* for its name, and a definition executed inside a function body is still
\* there when that call has returned.
C25_DefinitionOnly ==
    /\ [](source = Redefined /\ result = Returned(0) =>
              /\ environment["a"] = "2"
              /\ environment["b"] = "3"
              /\ DOMAIN functions = {"f", "g"})
    /\ [](\A t \in DOMAIN threads : \A n \in InBody(t) :
              /\ Stack(t)[n + 1].k = "execute"
              /\ Stack(t)[n + 1].stmts = Stack(t)[n].func.body)
    /\ [][\A t \in DOMAIN threads :
              Calls(t) /\ threads'[t] # threads[t] =>
                  Last(threads'[t].stack).func
                      = functions[Top(t).call.name]]_vars
    /\ [][\A t \in DOMAIN threads :
              At(t, "FunctionDef") /\ threads'[t] # threads[t] =>
                  /\ DOMAIN functions'
                         = DOMAIN functions \cup {Top(t).stmt.name}
                  /\ functions'[Top(t).stmt.name] = Top(t).stmt
                  /\ \A name \in DOMAIN functions \ {Top(t).stmt.name} :
                         functions'[name] = functions[name]
                  /\ threads'[t].stack = Below(t)
                  /\ threads'[t].exc = NoExc
                  /\ variables' = variables
                  /\ environment' = environment
                  /\ cwd' = cwd
                  /\ osCwd' = osCwd
                  /\ output' = output
                  /\ spawned' = spawned]_vars
    /\ [][\A t \in DOMAIN threads :
              AtAlways(t, "call") /\ threads'[t] # threads[t] =>
                  \A name \in DOMAIN functions :
                      /\ name \in DOMAIN functions'
                      /\ functions'[name] = functions[name]]_vars

\* the second definition of f is about to be executed
C25_Witness ==
    /\ source = Redefined
    /\ At(1, "FunctionDef")
    /\ Top(1).stmt.name = "f"
    /\ "f" \in DOMAIN functions
    /\ functions["f"] # Top(1).stmt

Separators == {"NEWLINE", "COMMENT", "EOF"}

\* the position of the first NEWLINE, COMMENT or EOF token from pos on
RECURSIVE FirstSeparator(_, _)
FirstSeparator(toks, pos) ==
    IF current(toks, pos).type \in Separators THEN pos
    ELSE FirstSeparator(toks, pos + 1)

\* the positions of the run keywords that start a statement
RunStatements(toks) ==
    {pos \in 0..(Len(toks) - 1) :
        /\ toks[pos + 1].type = "RUN"
        /\ pos = 0 \/ toks[pos].type \in {"NEWLINE", "COMMENT", "LBRACE"}}

\* every run statement of the tokens ends at the first separator after
\* its keyword
StopsAtSeparator(toks) ==
    \A pos \in RunStatements(toks) :
        parse_run(toks, pos).ok =>
            parse_run(toks, pos).pos = FirstSeparator(toks, pos + 1)

\* C26: parsing a run statement consumes the tokens between the run
\* keyword and the first NEWLINE, COMMENT or EOF token after it and no
\* more, so the statement on the next line is a statement of its own, also
\* when nothing follows run on its line.
C26_RunStopsAtLine ==
    hist.parsed # "no" /\ tokenize(source).ok =>
        /\ StopsAtSeparator(tokenize(source).tokens)
        /\ source = RunAlone => hist.nTop = 2

\* the same for a run followed on its line by at least one token
C26_StopsAfterCommand ==
    hist.parsed # "no" /\ tokenize(source).ok =>
        \A pos \in RunStatements(tokenize(source).tokens) :
            /\ parse_run(tokenize(source).tokens, pos).ok
            /\ current(tokenize(source).tokens, pos + 1).type
                   \notin Separators
            => parse_run(tokenize(source).tokens, pos).pos
                   = FirstSeparator(tokenize(source).tokens, pos + 1)

\* thread t is in execute_parallel, past its last child or not
InParallel(t) == AtAlways(t, "ParallelBlock")

\* C27: an error raised by a child of a parallel block never aborts the
\* script: no step of execute_parallel raises, whatever its children
\* returned; when the errors are printed the block returns to the block
\* of statements it stands in, which goes on; and the script whose second
\* child fails ends with the statement after the block executed and
\* run() = 0.
C27_ChildErrorNotFatal ==
    /\ [](source = ChildFails /\ result # Running =>
              /\ result = Returned(0)
              /\ "z" \in DOMAIN variables
              /\ variables["z"] = VInt(3))
    /\ [](\A t \in DOMAIN threads : InParallel(t) => threads[t].exc = NoExc)
    /\ [][\A t \in DOMAIN threads :
              InParallel(t) /\ threads'[t] # threads[t] =>
                  /\ threads'[t].exc = NoExc
                  /\ \/ /\ Len(threads'[t].stack) = Len(Stack(t))
                        /\ Last(threads'[t].stack).k = "ParallelBlock"
                     \/ /\ Top(t).pc = "report"
                        /\ Top(t).errors = <<>>
                        /\ threads'[t].stack = Below(t)]_vars

\* the script whose second child fails has returned 0: the error was
\* printed and the statement after the block bound z
C27_Witness ==
    /\ source = ChildFails
    /\ result = Returned(0)
    /\ Failed # {}
    /\ ReportLines # {}
    /\ variables["z"] = VInt(3)

\* the parallel block of the script has seen every child finish
Joined ==
    /\ At(1, "ParallelBlock")
    /\ Len(Stack(1)) = 3
    /\ Top(1).pc = "report"

\* the names exactly one child of the block has bound
SingleWriter ==
    {name \in DOMAIN hist.writers : Cardinality(hist.writers[name]) = 1}

\* C28: after a parallel block completes the environment mirrors the
\* variables: every bound variable is in the environment with the string
\* of its value, whatever the interleaving of the children was.
C28_MirrorAfterParallel == Joined => Mirrored

\* what holds of a block none of whose children calls a function: a
\* variable that exactly one child bound is in the environment with the
\* string of its value
C28_SingleWriterMirrored ==
    Joined /\ ~hist.called =>
        \A name \in SingleWriter \cap DOMAIN variables :
            /\ name \in DOMAIN environment
            /\ environment[name] = PyStr(variables[name])

(***************************************************************************)
(* The lexer on its own: Lexer(text) for every text up to MaxLen           *)
(* characters over an alphabet with one character for each branch of the   *)
(* main loop of Lexer.tokenize, and one turn of that loop a step.          *)
(***************************************************************************)
MaxLen == 2

\* blank, line break, comment, quote, digit, dollar, letter, minus, equals
\* sign, a single-character token and a character no branch accepts
LexChars == {" ", "\n", "#", "\"", "1", "$", "a", "-", "=", "{", "!"}

RECURSIVE Texts(_)
Texts(n) ==
    IF n = 0 THEN {""} ELSE {t \o c : t \in Texts(n - 1), c \in LexChars}

LexSources == UNION {Texts(n) : n \in 0..MaxLen}

\* before a text is handed to the lexer
LexerInit ==
    /\ source = ""
    /\ args = <<>>
    /\ hostOs = "posix"
    /\ variables = EmptyMap
    /\ functions = EmptyMap
    /\ environment = HostEnvironment
    /\ cwd = StartDir
    /\ osCwd = StartDir
    /\ threads = <<Thread(<<RunFrame>>, 0)>>
    /\ output = <<>>
    /\ spawned = <<>>
    /\ result = Running
    /\ hist = [parsed |-> "no", nTop |-> 0, topDone |-> 0,
               lastWrite |-> EmptyMap, assigned |-> EmptyMap,
               top |-> EmptyMap, writers |-> EmptyMap, called |-> FALSE]
    /\ registry = EmptyRegistry
    /\ cli = NoCommand
    /\ lexer = LexInit
    /\ scripts = {}

\* Lexer(text): the lexer is constructed on the text, at its first
\* character, with no token yet
Lexer(text) ==
    /\ source = ""
    /\ lexer = LexInit
    /\ source' = text
    /\ lexer' = LexInit
    /\ UNCHANGED <<args, hostOs, variables, functions, environment, cwd,
                   osCwd, threads, output, spawned, result, hist, registry,
                   cli, scripts>>

\* one turn of `while True` in Lexer.tokenize
Turn ==
    /\ lexer.status = "scan"
    /\ lexer' = TokenizeStep(source, lexer)
    /\ UNCHANGED <<source, args, hostOs, variables, functions, environment,
                   cwd, osCwd, threads, output, spawned, result, hist,
                   registry, cli, scripts>>

LexerNext ==
    \/ \E text \in LexSources \ {""} : Lexer(text)
    \/ Turn

\* the loop runs until it breaks or raises: nothing suspends the lexer
LexerSpec == LexerInit /\ [][LexerNext]_vars /\ WF_vars(Turn)

\* the positions of the EOF tokens in a token list
EofAt(tokens) == {i \in DOMAIN tokens : tokens[i].type = "EOF"}

\* the turn consumed a character, raised, or appended EOF and stopped
Progress ==
    \/ lexer'.status = "scan" /\ lexer'.pos > lexer.pos
    \/ lexer'.status = "error"
    \/ /\ lexer'.status = "done"
       /\ Len(lexer'.tokens) = Len(lexer.tokens) + 1
       /\ lexer'.tokens[Len(lexer'.tokens)].type = "EOF"

\* C29: tokenize terminates on every source: each turn of the main loop
\* consumes at least one character, raises a lexical error, or appends EOF
\* and stops; the position never passes the end of the source, so the
\* turns are finitely many; and the token list of a successful run has
\* exactly one EOF token, the last one, and is what tokenize returns.
C29_TokenizeTerminates ==
    /\ [][Turn => Progress]_vars
    /\ [](lexer.pos <= Len(source))
    /\ <>(lexer.status # "scan")
    /\ [](lexer.status = "done" =>
            /\ EofAt(lexer.tokens) = {Len(lexer.tokens)}
            /\ tokenize(source).ok
            /\ tokenize(source).tokens = lexer.tokens)

\* a source of MaxLen characters, each a token of its own, lexed to the end
C29_Witness ==
    /\ Len(source) = MaxLen
    /\ lexer.status = "done"
    /\ Len(lexer.tokens) = MaxLen + 1

(***************************************************************************)
(* Global scripts: `nlpm register script` writes SCRIPTS_DIR/<name>.nlps    *)
(* from nlpm-script.yaml, and `nlpm <name>` runs it when main hands the     *)
(* name to find_and_run_script.                                            *)
(***************************************************************************)
reserved_commands ==
    {"init-lib", "register", "publish", "install", "update", "list",
     "init-script", "register-script", "list-scripts", "help", "--help",
     "-h"}

built_in_commands ==
    {"init", "list", "register", "publish", "install", "update", "cdr",
     "remove-dir", "cdr-init", "help", "--help", "-h"}

\* the names a nlpm-script.yaml may carry: free names, names of one set
\* only, names of both sets, option-like names and the missing name
ScriptNames ==
    {"", "build", "init", "cdr", "init-lib", "register-script", "list",
     "help", "-x", "--version"}

ScriptCommands == {"", "echo hi"}

NoScriptConfig == [name |-> "", command |-> "", exists |-> FALSE]

ScriptConfigs ==
    {[name |-> n, command |-> c, exists |-> TRUE] :
        n \in ScriptNames, c \in ScriptCommands}

Registration(script_data, log) ==
    [command |-> "register script", script_data |-> script_data,
     log |-> log]

\* nlpm register script: script_manager.register_script.  script_data is
\* what nlpm-script.yaml holds in the current directory
register_script(script_data) ==
    /\ IF ~script_data.exists
       THEN /\ cli' = Registration(script_data,
                          "nlpm-script.yaml not found. "
                              \o "Run 'nlpm init-script' first.")
            /\ UNCHANGED scripts
       ELSE IF script_data.name = ""
       THEN /\ cli' = Registration(script_data,
                          "Script 'name' is required in config")
            /\ UNCHANGED scripts
       ELSE IF script_data.command = ""
       THEN /\ cli' = Registration(script_data,
                          "Script 'command' is required in config")
            /\ UNCHANGED scripts
       ELSE IF script_data.name \in reserved_commands
       THEN /\ cli' = Registration(script_data,
                          "Script name '" \o script_data.name
                              \o "' is reserved. Choose a different name.")
            /\ UNCHANGED scripts
       ELSE /\ scripts' = scripts \cup {script_data.name}
            /\ cli' = Registration(script_data,
                          "Registered script '" \o script_data.name \o "'")
    /\ UNCHANGED <<source, args, hostOs, variables, functions, environment,
                   cwd, osCwd, threads, output, spawned, result, hist,
                   registry, lexer>>

\* find_and_run_script: whether run_script took the process over
find_and_run_script(files, args_list) ==
    /\ args_list # <<>>
    /\ args_list[1] \in files

Invocation(argv, handler) ==
    [command |-> "nlpm", argv |-> argv, handler |-> handler]

\* what main does with the arguments after the program name: it prints
\* the version, hands over to the script, or goes on to argparse
Handler(files, argv) ==
    IF argv = <<>>
    THEN "argparse"
    ELSE IF argv[1] \in {"--version", "-v"}
    THEN "version"
    ELSE IF /\ argv[1] \notin built_in_commands
            /\ Sub(argv[1], 1, 1) # "-"
            /\ find_and_run_script(files, argv)
    THEN "run_script"
    ELSE "argparse"

\* nlpm <potential_script>: main
main(argv) ==
    /\ cli' = Invocation(argv, Handler(scripts, argv))
    /\ UNCHANGED <<source, args, hostOs, variables, functions, environment,
                   cwd, osCwd, threads, output, spawned, result, hist,
                   registry, lexer, scripts>>

ScriptInit == RegistryInit

ScriptNext ==
    \/ \E script_data \in ScriptConfigs \cup {NoScriptConfig} :
           register_script(script_data)
    \/ \E name \in ScriptNames \ {""} : main(<<name>>)
    \/ main(<<>>)

ScriptSpec == ScriptInit /\ [][ScriptNext]_vars

\* nlpm was called with the name of a registered script as first argument
CalledRegistered ==
    /\ cli.command = "nlpm"
    /\ cli.argv # <<>>
    /\ cli.argv[1] \in scripts

\* C30: every name register_script accepted is runnable as `nlpm <name>`:
\* whenever nlpm is called with a registered script's name as its first
\* argument, main hands the call to the script runner.
C30_RegisteredRunnable == CalledRegistered => cli.handler = "run_script"

\* registration accepts exactly the non-empty names outside its own
\* reserved set, and a registered name reaches the script runner unless
\* main lists it as built in or it starts with a hyphen
C30_RunnableUnlessBuiltIn ==
    /\ scripts \subseteq (ScriptNames \ {""}) \ reserved_commands
    /\ CalledRegistered =>
           (cli.handler = "run_script"
               <=> /\ cli.argv[1] \notin built_in_commands
                   /\ Sub(cli.argv[1], 1, 1) # "-")

====
